---- MODULE Spec2Model ----
(***************************************************************************)
(* A model of the luna_nbt binary codec: the Tag tree, the big-endian      *)
(* writers of encode.rs, the recursive-descent readers of decode.rs and    *)
(* the Blob / Tag front ends of blob.rs and front.rs.                      *)
(*                                                                         *)
(* Representation of the Rust values:                                      *)
(*   u8                 a number in 0..255                                 *)
(*   i8, i16, i32       their numeric value                                *)
(*   u32 read from wire <<h, l>>: two 16-bit limbs, value h * 65536 + l    *)
(*   i64                [hi |-> the top 32 bits as an i32,                 *)
(*                       lo |-> the low 32 bits as a u32 limb pair]        *)
(*   f32                [sign, exp, mant]: the IEEE-754 fields (1, 8, 23)  *)
(*   f64                [sign, exp, mant |-> <<m1, m2, m3>>]: the fields   *)
(*                      (1, 11, 52), the mantissa as limbs of 20, 16, 16   *)
(*   String / &str      the sequence of its chars (Unicode scalar values)  *)
(*   Vec<T>             a sequence                                         *)
(*   HashMap<String,Tag> a function from names (strings) to tags           *)
(*   Tag                [tag |-> variant name, <variant> |-> payload]      *)
(*   TagIdent           the variant's name, "TAG_End" .. "TAG_Long_Array"  *)
(*   NBTError           [error |-> variant name, ...fields]                *)
(*   NBTResult<T>       [ok |-> TRUE, val |-> T (, pos)] or                *)
(*                      [ok |-> FALSE, err |-> NBTError]                   *)
(* The limbs exist because the checker's integers are 32 bits wide.        *)
(***************************************************************************)
EXTENDS Integers, Sequences, FiniteSets, TLC

VARIABLES
    pc,       \* "idle" (a Blob is being built), "ready" (bytes are at hand), "done" (read)
    blob,     \* the Blob: [root |-> String, elements |-> HashMap<String, Tag>]
    tag,      \* the bare Tag last written through NBTWrite for Tag, or NoTag
    origin,   \* where buf comes from: "none", "Blob::write", "Tag::write", "from_bytes"
    buf,      \* the byte buffer: the Vec<u8> written to, then the Cursor's data
    wres,     \* the NBTResult<()> of the write, or NoResult
    rres,     \* the read that was made and its NBTResult, or NoResult
    features, \* the cargo features of the build: a subset of Features
    host,     \* the host value last given to encode_tag, or NoValue
    ser,      \* the NBTResult<Option<Tag>> of encode_tag, or NoResult
    request,  \* the host type last asked of the deserializer, or NoType
    given,    \* the Option<Tag> the deserializer was built on
    de,       \* the NBTResult of the deserializer, or NoResult
    cursor,   \* the cursor the program holds: "none", "seq" or "map"
    seq_access, \* the NBTSeqAccess: [data |-> Vec<Tag>]
    map_access, \* the NBTMapAccess: [data |-> Vec<(String, Tag)>, value |-> Option<Tag>]
    stored,   \* what the cursor was built on: its data at construction
    calls     \* the calls made on the cursor so far, each with its seed and its result

\* the state of the serde bridge
bridge == <<features, host, ser, request, given, de>>

\* the state of a cursor the program drives itself
access == <<cursor, seq_access, map_access, stored, calls>>

vars == <<pc, blob, tag, origin, buf, wres, rres, features, host, ser, request, given, de,
          cursor, seq_access, map_access, stored, calls>>

----------------------------------------------------------------------------
(* Bounds of the model.                                                    *)

\* longest List drawn as an input
MaxList == 2
\* longest arbitrary tail of a raw input stream
MaxRaw == 3

----------------------------------------------------------------------------
(* Results and errors.                                                     *)

Ok(v) == [ok |-> TRUE, val |-> v]
OkAt(v, p) == [ok |-> TRUE, val |-> v, pos |-> p]
Err(e) == [ok |-> FALSE, err |-> e]

\* digest_io of a failed read: the reader ran out of bytes
IOError == [error |-> "IO"]
InvalidList(f, e) == [error |-> "InvalidList", found |-> f, expecting |-> e]
\* InvalidTag { found: u8 }: the byte, as found_u8 (found is a TagIdent elsewhere)
InvalidTag(b) == [error |-> "InvalidTag", found_u8 |-> b]
InvalidImplicit(i) == [error |-> "InvalidImplicit", found |-> i]
StringError == [error |-> "StringError"]
UnexpectedEndTag == [error |-> "UnexpectedEndTag"]
Custom(m) == [error |-> "Custom", msg |-> m]
UnserializableType(n) == [error |-> "UnserializableType", type_name |-> n]
InvalidType(f, e, w) == [error |-> "InvalidType", found |-> f, expecting |-> e, when |-> w]
InvalidChar == [error |-> "InvalidChar"]
NoData(w) == [error |-> "NoData", when |-> w]

NoResult == [ok |-> FALSE, err |-> [error |-> "none"]]
NoTag == [tag |-> "none"]

----------------------------------------------------------------------------
(* TagIdent and Tag.                                                       *)

TagIdents == {"TAG_End", "TAG_Byte", "TAG_Short", "TAG_Int", "TAG_Long", "TAG_Float",
              "TAG_Double", "TAG_Byte_Array", "TAG_String", "TAG_List", "TAG_Compound",
              "TAG_Int_Array", "TAG_Long_Array"}

\* a numbering that exchanges 11 and 12
IdentAsU8_SwapMut(i) ==
    CASE i = "TAG_End" -> 0 [] i = "TAG_Byte" -> 1 [] i = "TAG_Short" -> 2
      [] i = "TAG_Int" -> 3 [] i = "TAG_Long" -> 4 [] i = "TAG_Float" -> 5
      [] i = "TAG_Double" -> 6 [] i = "TAG_Byte_Array" -> 7 [] i = "TAG_String" -> 8
      [] i = "TAG_List" -> 9 [] i = "TAG_Compound" -> 10 [] i = "TAG_Int_Array" -> 12
      [] i = "TAG_Long_Array" -> 11

\* `ident as u8`: the discriminants of the #[repr(u8)] enum
IdentAsU8(i) ==
    CASE i = "TAG_End" -> 0 [] i = "TAG_Byte" -> 1 [] i = "TAG_Short" -> 2
      [] i = "TAG_Int" -> 3 [] i = "TAG_Long" -> 4 [] i = "TAG_Float" -> 5
      [] i = "TAG_Double" -> 6 [] i = "TAG_Byte_Array" -> 7 [] i = "TAG_String" -> 8
      [] i = "TAG_List" -> 9 [] i = "TAG_Compound" -> 10 [] i = "TAG_Int_Array" -> 11
      [] i = "TAG_Long_Array" -> 12

\* TagIdent::parse: Option<TagIdent>, None as [some |-> FALSE]
parse(value) ==
    CASE value = 0 -> [some |-> TRUE, val |-> "TAG_End"]
      [] value = 1 -> [some |-> TRUE, val |-> "TAG_Byte"]
      [] value = 2 -> [some |-> TRUE, val |-> "TAG_Short"]
      [] value = 3 -> [some |-> TRUE, val |-> "TAG_Int"]
      [] value = 4 -> [some |-> TRUE, val |-> "TAG_Long"]
      [] value = 5 -> [some |-> TRUE, val |-> "TAG_Float"]
      [] value = 6 -> [some |-> TRUE, val |-> "TAG_Double"]
      [] value = 7 -> [some |-> TRUE, val |-> "TAG_Byte_Array"]
      [] value = 8 -> [some |-> TRUE, val |-> "TAG_String"]
      [] value = 9 -> [some |-> TRUE, val |-> "TAG_List"]
      [] value = 10 -> [some |-> TRUE, val |-> "TAG_Compound"]
      [] value = 11 -> [some |-> TRUE, val |-> "TAG_Int_Array"]
      [] value = 12 -> [some |-> TRUE, val |-> "TAG_Long_Array"]
      [] OTHER -> [some |-> FALSE]

\* Tag::ident
ident(t) ==
    CASE t.tag = "Byte" -> "TAG_Byte" [] t.tag = "Short" -> "TAG_Short"
      [] t.tag = "Int" -> "TAG_Int" [] t.tag = "Long" -> "TAG_Long"
      [] t.tag = "Float" -> "TAG_Float" [] t.tag = "Double" -> "TAG_Double"
      [] t.tag = "ByteArray" -> "TAG_Byte_Array" [] t.tag = "String" -> "TAG_String"
      [] t.tag = "List" -> "TAG_List" [] t.tag = "Compound" -> "TAG_Compound"
      [] t.tag = "IntArray" -> "TAG_Int_Array" [] t.tag = "LongArray" -> "TAG_Long_Array"

TagByte(v) == [tag |-> "Byte", byte |-> v]
TagShort(v) == [tag |-> "Short", short |-> v]
TagInt(v) == [tag |-> "Int", int |-> v]
TagLong(v) == [tag |-> "Long", long |-> v]
TagFloat(v) == [tag |-> "Float", float |-> v]
TagDouble(v) == [tag |-> "Double", double |-> v]
TagByteArray(v) == [tag |-> "ByteArray", bytes |-> v]
TagString(v) == [tag |-> "String", string |-> v]
TagList(v) == [tag |-> "List", list |-> v]
TagCompound(v) == [tag |-> "Compound", compound |-> v]
TagIntArray(v) == [tag |-> "IntArray", ints |-> v]
TagLongArray(v) == [tag |-> "LongArray", longs |-> v]

\* HashMap::new()
EmptyMap == [n \in {} |-> NoTag]

----------------------------------------------------------------------------
(* byteorder: the big-endian writers and what the readers decode.          *)

\* write_i8 / write_u8: one byte, two's complement
I8Bytes(v) == << v % 256 >>

\* write_u16::<BE>(len as u16): the cast keeps the low 16 bits
U16Bytes(n) == << (n \div 256) % 256, n % 256 >>

\* write_i16::<BE>
I16Bytes(v) == << (v \div 256) % 256, v % 256 >>

\* write_i32::<BE>, and write_u32::<BE>(len as u32) for a length below 2^31
I32Bytes(v) ==
    << (v \div 16777216) % 256, (v \div 65536) % 256, (v \div 256) % 256, v % 256 >>

\* write_i64::<BE>
I64Bytes(v) == I32Bytes(v.hi) \o U16Bytes(v.lo[1]) \o U16Bytes(v.lo[2])

\* write_f32::<BE>: the bits of the float, big-endian
F32Bytes(f) ==
    << (f.sign * 128) + (f.exp \div 2),
       ((f.exp % 2) * 128) + (f.mant \div 65536),
       (f.mant \div 256) % 256,
       f.mant % 256 >>

\* write_f64::<BE>
F64Bytes(f) ==
    << (f.sign * 128) + (f.exp \div 16),
       ((f.exp % 16) * 16) + (f.mant[1] \div 65536),
       (f.mant[1] \div 256) % 256,
       f.mant[1] % 256 >>
    \o U16Bytes(f.mant[2]) \o U16Bytes(f.mant[3])

\* i8 from its byte
I8From(b) == IF b >= 128 THEN b - 256 ELSE b
\* i16 from its two bytes, big-endian
I16From(b) == I8From(b[1]) * 256 + b[2]
\* i32 from its four bytes, big-endian
I32From(b) == I8From(b[1]) * 16777216 + b[2] * 65536 + b[3] * 256 + b[4]
\* u16 from its two bytes, big-endian
U16From(b) == b[1] * 256 + b[2]
\* u32 from its four bytes, big-endian, as limbs
U32From(b) == << b[1] * 256 + b[2], b[3] * 256 + b[4] >>
\* i64 from its eight bytes, big-endian
I64From(b) == [hi |-> I32From(SubSeq(b, 1, 4)), lo |-> U32From(SubSeq(b, 5, 8))]
\* f32::from_bits of four bytes, big-endian
F32From(b) ==
    [sign |-> b[1] \div 128,
     exp |-> ((b[1] % 128) * 2) + (b[2] \div 128),
     mant |-> (b[2] % 128) * 65536 + b[3] * 256 + b[4]]
\* f64::from_bits of eight bytes, big-endian
F64From(b) ==
    [sign |-> b[1] \div 128,
     exp |-> ((b[1] % 128) * 16) + (b[2] \div 16),
     mant |-> << (b[2] % 16) * 65536 + b[3] * 256 + b[4],
                 b[5] * 256 + b[6], b[7] * 256 + b[8] >>]

\* u32 limbs: zero test and decrement (the counter of `for _ in 0..length`)
U32IsZero(n) == n[1] = 0 /\ n[2] = 0
U32Dec(n) == IF n[2] > 0 THEN << n[1], n[2] - 1 >> ELSE << n[1] - 1, 65535 >>

----------------------------------------------------------------------------
(* Strings: str::as_bytes (UTF-8), core::str::from_utf8, and               *)
(* cesu8::from_java_cesu8 as decode_wonky_string calls it.                 *)

\* the UTF-8 bytes of one char
Utf8Char(c) ==
    IF c < 128 THEN << c >>
    ELSE IF c < 2048 THEN << 192 + (c \div 64), 128 + (c % 64) >>
    ELSE IF c < 65536 THEN << 224 + (c \div 4096), 128 + ((c \div 64) % 64), 128 + (c % 64) >>
    ELSE << 240 + (c \div 262144), 128 + ((c \div 4096) % 64),
            128 + ((c \div 64) % 64), 128 + (c % 64) >>

\* str::as_bytes: a Rust string is held as its UTF-8 bytes
RECURSIVE as_bytes(_)
as_bytes(s) ==
    IF Len(s) = 0 THEN << >>
    ELSE IF Len(s) = 1 THEN Utf8Char(s[1])
    ELSE LET h == Len(s) \div 2
         IN as_bytes(SubSeq(s, 1, h)) \o as_bytes(SubSeq(s, h + 1, Len(s)))

IsCont(b) == b >= 128 /\ b <= 191

\* core::str::from_utf8: the chars of b from position i on, or error
RECURSIVE from_utf8_at(_, _, _)
from_utf8_at(b, i, acc) ==
    IF i > Len(b) THEN Ok(acc)
    ELSE LET b1 == b[i]
             has(n) == i + n - 1 <= Len(b)
             b2 == b[i + 1]
             b3 == b[i + 2]
             b4 == b[i + 3]
         IN IF b1 < 128 THEN from_utf8_at(b, i + 1, Append(acc, b1))
            ELSE IF b1 >= 194 /\ b1 <= 223
            THEN IF has(2) /\ IsCont(b2)
                 THEN from_utf8_at(b, i + 2, Append(acc, (b1 - 192) * 64 + (b2 - 128)))
                 ELSE Err(StringError)
            ELSE IF b1 >= 224 /\ b1 <= 239
            THEN IF /\ has(3)
                    /\ \/ b1 = 224 /\ b2 >= 160 /\ b2 <= 191
                       \/ b1 >= 225 /\ b1 <= 236 /\ IsCont(b2)
                       \/ b1 = 237 /\ b2 >= 128 /\ b2 <= 159
                       \/ b1 >= 238 /\ IsCont(b2)
                    /\ IsCont(b3)
                 THEN from_utf8_at(b, i + 3,
                          Append(acc, (b1 - 224) * 4096 + (b2 - 128) * 64 + (b3 - 128)))
                 ELSE Err(StringError)
            ELSE IF b1 >= 240 /\ b1 <= 244
            THEN IF /\ has(4)
                    /\ \/ b1 = 240 /\ b2 >= 144 /\ b2 <= 191
                       \/ b1 >= 241 /\ b1 <= 243 /\ IsCont(b2)
                       \/ b1 = 244 /\ b2 >= 128 /\ b2 <= 143
                    /\ IsCont(b3) /\ IsCont(b4)
                 THEN from_utf8_at(b, i + 4,
                          Append(acc, (b1 - 240) * 262144 + (b2 - 128) * 4096
                                      + (b3 - 128) * 64 + (b4 - 128)))
                 ELSE Err(StringError)
            ELSE Err(StringError)

from_utf8(b) == from_utf8_at(b, 1, << >>)

\* core::str::utf8_char_width
utf8_char_width(b) ==
    IF b < 128 THEN 1
    ELSE IF b >= 194 /\ b <= 223 THEN 2
    ELSE IF b >= 224 /\ b <= 239 THEN 3
    ELSE IF b >= 240 /\ b <= 244 THEN 4
    ELSE 0

\* cesu8's decode_from_iter, Java variant: the re-encoding of bytes that are not UTF-8
RECURSIVE decode_from_iter(_, _, _)
decode_from_iter(b, i, acc) ==
    IF i > Len(b) THEN Ok(acc)
    ELSE LET first == b[i]
             has(n) == i + n - 1 <= Len(b)
             second == b[i + 1]
             third == b[i + 2]
             fifth == b[i + 4]
             sixth == b[i + 5]
             w == utf8_char_width(first)
         IN IF first = 0 THEN Err(StringError)
            ELSE IF first < 127 THEN decode_from_iter(b, i + 1, Append(acc, first))
            ELSE IF first = 192
            THEN IF has(2) /\ second = 128
                 THEN decode_from_iter(b, i + 2, Append(acc, 0))
                 ELSE Err(StringError)
            ELSE IF ~(has(2) /\ IsCont(second)) THEN Err(StringError)
            ELSE IF w = 2
            THEN decode_from_iter(b, i + 2,
                     Append(acc, (first - 192) * 64 + (second - 128)))
            ELSE IF w = 3
            THEN IF ~(has(3) /\ IsCont(third)) THEN Err(StringError)
                 ELSE IF \/ first = 224 /\ second >= 160
                         \/ first >= 225 /\ first <= 236
                         \/ first = 237 /\ second <= 159
                         \/ first >= 238
                 THEN decode_from_iter(b, i + 3,
                          Append(acc, (first - 224) * 4096 + (second - 128) * 64
                                      + (third - 128)))
                 ELSE IF first = 237 /\ second >= 160 /\ second <= 175
                 THEN IF /\ has(6)
                         /\ b[i + 3] = 237
                         /\ fifth >= 176 /\ fifth <= 191
                         /\ IsCont(sixth)
                      THEN decode_from_iter(b, i + 6,
                               Append(acc, 65536 + (second % 16) * 65536
                                           + (third % 64) * 1024
                                           + (fifth % 16) * 64 + (sixth % 64)))
                      ELSE Err(StringError)
                 ELSE Err(StringError)
            ELSE Err(StringError)

\* a decoder that takes every input as modified UTF-8
from_java_cesu8_NoUtf8Mut(b) == decode_from_iter(b, 1, << >>)

\* cesu8::from_java_cesu8: bytes that are valid UTF-8 are taken as they are,
\* anything else is decoded as Java's modified UTF-8
from_java_cesu8(b) ==
    LET u == from_utf8(b)
    IN IF u.ok THEN u ELSE decode_from_iter(b, 1, << >>)

\* decode_wonky_string
decode_wonky_string(b) ==
    LET r == from_java_cesu8(b)
    IN IF r.ok THEN Ok(r.val) ELSE Err(StringError)

----------------------------------------------------------------------------
(* Tag: the derived PartialEq.                                             *)

F32IsNaN(f) == f.exp = 255 /\ f.mant # 0
F32IsZero(f) == f.exp = 0 /\ f.mant = 0
\* f32 ==: a NaN equals nothing, the two zeros are equal
F32Eq(x, y) == ~F32IsNaN(x) /\ ~F32IsNaN(y) /\ (x = y \/ (F32IsZero(x) /\ F32IsZero(y)))

F64IsNaN(f) == f.exp = 2047 /\ f.mant # << 0, 0, 0 >>
F64IsZero(f) == f.exp = 0 /\ f.mant = << 0, 0, 0 >>
\* f64 ==
F64Eq(x, y) == ~F64IsNaN(x) /\ ~F64IsNaN(y) /\ (x = y \/ (F64IsZero(x) /\ F64IsZero(y)))

\* Tag == Tag
RECURSIVE TagEq(_, _)
TagEq(a, b) ==
    /\ a.tag = b.tag
    /\ CASE a.tag = "Float" -> F32Eq(a.float, b.float)
         [] a.tag = "Double" -> F64Eq(a.double, b.double)
         [] a.tag = "List" ->
                /\ Len(a.list) = Len(b.list)
                /\ \A i \in 1..Len(a.list) : TagEq(a.list[i], b.list[i])
         [] a.tag = "Compound" ->
                /\ DOMAIN a.compound = DOMAIN b.compound
                /\ \A n \in DOMAIN a.compound : TagEq(a.compound[n], b.compound[n])
         [] OTHER -> a = b

\* HashMap<String, Tag> == HashMap<String, Tag>
MapEq(x, y) == TagEq(TagCompound(x), TagCompound(y))

----------------------------------------------------------------------------
(* encode.rs.  The writer is a Vec<u8>, which never fails: a write returns *)
(* [buf |-> the bytes written so far, res |-> NBTResult<()>].  A HashMap   *)
(* is iterated in an order the program does not choose, so a write that    *)
(* walks a Compound yields the set of the outcomes of every order.         *)

Written(w) == [buf |-> w, res |-> Ok(<< >>)]
Failed(w, e) == [buf |-> w, res |-> Err(e)]

\* the orders in which `for (name, payload) in compound` may visit the keys
IterOrders(keys) ==
    { o \in [1..Cardinality(keys) -> keys] :
        \A i, j \in 1..Cardinality(keys) : i # j => o[i] # o[j] }

Min(S) == CHOOSE x \in S : \A y \in S : x <= y

\* a check that gives an empty list the ident TAG_Byte
ensure_list_integrity_EmptyByteMut(list) ==
    IF Len(list) = 0 THEN Ok("TAG_Byte")
    ELSE LET first == ident(list[1])
             bad == { i \in 1..Len(list) : ident(list[i]) # first }
         IN IF bad = {} THEN Ok(first)
            ELSE Err(InvalidList(ident(list[Min(bad)]), first))

\* ensure_list_integrity
ensure_list_integrity(list) ==
    IF Len(list) = 0 THEN Ok("TAG_End")
    ELSE LET first == ident(list[1])
             bad == { i \in 1..Len(list) : ident(list[i]) # first }
         IN IF bad = {} THEN Ok(first)
            ELSE Err(InvalidList(ident(list[Min(bad)]), first))

\* a writer whose length prefix stops at 65535 where the cast wraps
write_string_SaturateMut(w, string) ==
    LET bytes == as_bytes(string)
    IN w \o U16Bytes(IF Len(bytes) > 65535 THEN 65535 ELSE Len(bytes)) \o bytes

\* a writer whose length prefix counts chars
write_string_CharCountMut(w, string) ==
    w \o U16Bytes(Len(string)) \o as_bytes(string)

\* write_string
write_string(w, string) ==
    LET bytes == as_bytes(string)
    IN w \o U16Bytes(Len(bytes)) \o bytes

\* the element loops of the three array variants: the encodings of the elements, in order
RECURSIVE write_array(_, _, _)
write_array(w, encoded, i) ==
    IF i > Len(encoded) THEN w
    ELSE write_array(w \o encoded[i], encoded, i + 1)

RECURSIVE write_tag(_, _)
RECURSIVE write_items(_, _, _)
RECURSIVE write_list(_, _)
RECURSIVE write_entries(_, _, _, _)
RECURSIVE write_compound(_, _)

\* write_tag, Tag::List: `for item in list { write_tag(writer, &item)?; }`
write_items(w, list, i) ==
    IF i > Len(list) THEN { Written(w) }
    ELSE UNION { IF r.res.ok THEN write_items(r.buf, list, i + 1) ELSE { r } :
                 r \in write_tag(w, list[i]) }

\* a writer that checks the list after writing its header
write_list_HeaderFirstMut(w, list) ==
    LET list_type == ensure_list_integrity(list)
        typed == w \o << IdentAsU8(IF list_type.ok THEN list_type.val ELSE ident(list[1])) >>
    IN IF ~list_type.ok THEN { Failed(typed, list_type.err) }
       ELSE write_items(typed \o I32Bytes(Len(list)), list, 1)

\* write_tag, Tag::List
write_list(w, list) ==
    LET list_type == ensure_list_integrity(list)
    IN IF ~list_type.ok THEN { Failed(w, list_type.err) }
       ELSE write_items(w \o << IdentAsU8(list_type.val) >> \o I32Bytes(Len(list)), list, 1)

\* write_tag
write_tag(w, t) ==
    CASE t.tag = "Byte" -> { Written(w \o I8Bytes(t.byte)) }
      [] t.tag = "Short" -> { Written(w \o I16Bytes(t.short)) }
      [] t.tag = "Int" -> { Written(w \o I32Bytes(t.int)) }
      [] t.tag = "Long" -> { Written(w \o I64Bytes(t.long)) }
      [] t.tag = "Float" -> { Written(w \o F32Bytes(t.float)) }
      [] t.tag = "Double" -> { Written(w \o F64Bytes(t.double)) }
      [] t.tag = "ByteArray" ->
            { Written(write_array(w \o I32Bytes(Len(t.bytes)),
                                   [i \in 1..Len(t.bytes) |-> I8Bytes(t.bytes[i])], 1)) }
      [] t.tag = "String" -> { Written(write_string(w, t.string)) }
      [] t.tag = "List" -> write_list(w, t.list)
      [] t.tag = "Compound" -> write_compound(w, t.compound)
      [] t.tag = "IntArray" ->
            { Written(write_array(w \o I32Bytes(Len(t.ints)),
                                   [i \in 1..Len(t.ints) |-> I32Bytes(t.ints[i])], 1)) }
      [] t.tag = "LongArray" ->
            { Written(write_array(w \o I32Bytes(Len(t.longs)),
                                   [i \in 1..Len(t.longs) |-> I64Bytes(t.longs[i])], 1)) }

\* write_compound, the loop under one iteration order
write_entries(w, compound, order, i) ==
    IF i > Len(order) THEN { Written(w \o << IdentAsU8("TAG_End") >>) }
    ELSE LET name == order[i]
             payload == compound[name]
             named == write_string(w \o << IdentAsU8(ident(payload)) >>, name)
         IN UNION { IF r.res.ok THEN write_entries(r.buf, compound, order, i + 1)
                    ELSE { r } :
                    r \in write_tag(named, payload) }

\* write_compound
write_compound(w, compound) ==
    UNION { write_entries(w, compound, order, 1) : order \in IterOrders(DOMAIN compound) }

\* a writer that ends the document with a second End byte
write_root_DoubleEndMut(w, name, elements) ==
    { [r EXCEPT !.buf = IF r.res.ok THEN @ \o << IdentAsU8("TAG_End") >> ELSE @] :
      r \in write_compound(write_string(w \o << IdentAsU8("TAG_Compound") >>, name),
                            elements) }

\* write_root
write_root(w, name, elements) ==
    write_compound(write_string(w \o << IdentAsU8("TAG_Compound") >>, name), elements)

----------------------------------------------------------------------------
(* decode.rs.  The reader is a Cursor over `data`; pos is the index of the *)
(* next byte (1-based).  A read returns [ok, val, pos] or [ok, err]; a     *)
(* read past the end is the IO error that digest_io wraps.                 *)

\* reader.read_u8()
read_u8(data, pos) ==
    IF pos <= Len(data) THEN OkAt(data[pos], pos + 1) ELSE Err(IOError)

\* read_exact of n bytes, as read_i16 .. read_f64 make it
read_exact(data, pos, n) ==
    IF pos + n - 1 <= Len(data) THEN OkAt(SubSeq(data, pos, pos + n - 1), pos + n)
    ELSE Err(IOError)

\* a fixed-width big-endian read
read_fixed(data, pos, n, From(_)) ==
    LET r == read_exact(data, pos, n)
    IN IF r.ok THEN OkAt(From(r.val), r.pos) ELSE r

\* a reader that reduces the byte modulo 13 and never refuses it
read_ident_LenientMut(data, pos) ==
    LET byte == read_u8(data, pos)
        p == parse(byte.val % 13)
    IN IF ~byte.ok THEN byte ELSE OkAt(p.val, byte.pos)

\* read_ident
read_ident(data, pos) ==
    LET byte == read_u8(data, pos)
        p == parse(byte.val)
    IN IF ~byte.ok THEN byte
       ELSE IF p.some THEN OkAt(p.val, byte.pos)
       ELSE Err(InvalidTag(byte.val))

\* read_size: `size` bytes, one read_u8 at a time
read_size(data, pos, size) == read_exact(data, pos, size)

\* read_string
read_string(data, pos) ==
    LET length == read_fixed(data, pos, 2, U16From)
        buffer == read_size(data, length.pos, length.val)
        string == decode_wonky_string(buffer.val)
    IN IF ~length.ok THEN length
       ELSE IF ~buffer.ok THEN buffer
       ELSE IF ~string.ok THEN string
       ELSE OkAt(string.val, buffer.pos)

RECURSIVE read_array(_, _, _, _, _)

\* an element loop that stops at the end of the input and keeps what it has read
read_array_ShortMut(data, pos, length, width, array) ==
    IF U32IsZero(length) THEN OkAt(array, pos)
    ELSE LET r == read_exact(data, pos, width)
         IN IF ~r.ok THEN OkAt(array, pos)
            ELSE read_array(data, r.pos, U32Dec(length), width, Append(array, r.val))

\* the element loop of the three array variants: `for _ in 0..length { array.push(..) }`
read_array(data, pos, length, width, array) ==
    IF U32IsZero(length) THEN OkAt(array, pos)
    ELSE LET r == read_exact(data, pos, width)
         IN IF ~r.ok THEN r
            ELSE read_array(data, r.pos, U32Dec(length), width, Append(array, r.val))

\* a map whose insert keeps the payload a name already has
insert_KeepFirstMut(map, name, payload) ==
    [n \in DOMAIN map \cup { name } |-> IF n \in DOMAIN map THEN map[n] ELSE payload]

\* HashMap::insert: a later insert of the same name replaces the payload
insert(map, name, payload) ==
    [n \in DOMAIN map \cup { name } |-> IF n = name THEN payload ELSE map[n]]

RECURSIVE read_tag(_, _, _)
RECURSIVE read_items(_, _, _, _, _)
RECURSIVE read_list(_, _)
RECURSIVE read_entries(_, _, _)

\* read_tag, TAG_List: `for _ in 0..length { list.push(read_tag(reader, &ident)?); }`
read_items(data, pos, id, length, list) ==
    IF U32IsZero(length) THEN OkAt(TagList(list), pos)
    ELSE LET r == read_tag(data, pos, id)
         IN IF ~r.ok THEN r
            ELSE read_items(data, r.pos, id, U32Dec(length), Append(list, r.val))

\* a reader that takes a List of End as empty whatever its length
read_list_SkipEndMut(data, pos) ==
    LET id == read_ident(data, pos)
        length == read_fixed(data, id.pos, 4, U32From)
    IN IF ~id.ok THEN id
       ELSE IF ~length.ok THEN length
       ELSE IF id.val = "TAG_End" THEN OkAt(TagList(<< >>), length.pos)
       ELSE read_items(data, length.pos, id.val, length.val, << >>)

\* read_tag, TAG_List
read_list(data, pos) ==
    LET id == read_ident(data, pos)
        length == read_fixed(data, id.pos, 4, U32From)
    IN IF ~id.ok THEN id
       ELSE IF ~length.ok THEN length
       ELSE read_items(data, length.pos, id.val, length.val, << >>)

\* read_compound: the loop, `compound` being the map read so far
read_entries(data, pos, compound) ==
    LET id == read_ident(data, pos)
        name == read_string(data, id.pos)
        payload == read_tag(data, name.pos, id.val)
    IN IF ~id.ok THEN id
       ELSE IF id.val = "TAG_End" THEN OkAt(compound, id.pos)
       ELSE IF ~name.ok THEN name
       ELSE IF ~payload.ok THEN payload
       ELSE read_entries(data, payload.pos, insert(compound, name.val, payload.val))

\* read_compound
read_compound(data, pos) == read_entries(data, pos, EmptyMap)

\* the Tag a read wraps its value in
Wrap(r, Variant(_)) == IF r.ok THEN OkAt(Variant(r.val), r.pos) ELSE r

\* the elements of a byte / int / long array, decoded
Elems(bytes, From(_)) == [i \in 1..Len(bytes) |-> From(bytes[i])]
I8FromSeq(b) == I8From(b[1])
ByteElems(bytes) == TagByteArray(Elems(bytes, I8FromSeq))
IntElems(bytes) == TagIntArray(Elems(bytes, I32From))
LongElems(bytes) == TagLongArray(Elems(bytes, I64From))

\* read_tag
read_tag(data, pos, id) ==
    CASE id = "TAG_End" -> Err(UnexpectedEndTag)
      [] id = "TAG_Byte" -> Wrap(read_fixed(data, pos, 1, I8FromSeq), TagByte)
      [] id = "TAG_Short" -> Wrap(read_fixed(data, pos, 2, I16From), TagShort)
      [] id = "TAG_Int" -> Wrap(read_fixed(data, pos, 4, I32From), TagInt)
      [] id = "TAG_Long" -> Wrap(read_fixed(data, pos, 8, I64From), TagLong)
      [] id = "TAG_Float" -> Wrap(read_fixed(data, pos, 4, F32From), TagFloat)
      [] id = "TAG_Double" -> Wrap(read_fixed(data, pos, 8, F64From), TagDouble)
      [] id = "TAG_Byte_Array" ->
            LET length == read_fixed(data, pos, 4, U32From)
            IN IF ~length.ok THEN length
               ELSE Wrap(read_array(data, length.pos, length.val, 1, << >>), ByteElems)
      [] id = "TAG_String" -> Wrap(read_string(data, pos), TagString)
      [] id = "TAG_List" -> read_list(data, pos)
      [] id = "TAG_Compound" -> Wrap(read_compound(data, pos), TagCompound)
      [] id = "TAG_Int_Array" ->
            LET length == read_fixed(data, pos, 4, U32From)
            IN IF ~length.ok THEN length
               ELSE Wrap(read_array(data, length.pos, length.val, 4, << >>), IntElems)
      [] id = "TAG_Long_Array" ->
            LET length == read_fixed(data, pos, 4, U32From)
            IN IF ~length.ok THEN length
               ELSE Wrap(read_array(data, length.pos, length.val, 8, << >>), LongElems)

\* a reader that accepts any ident at the root
read_root_NoCheckMut(data, pos) ==
    LET implicit_ident == read_ident(data, pos)
        name == read_string(data, implicit_ident.pos)
        compound == read_compound(data, name.pos)
    IN IF ~implicit_ident.ok THEN implicit_ident
       ELSE IF ~name.ok THEN name
       ELSE IF ~compound.ok THEN compound
       ELSE OkAt([root |-> name.val, elements |-> compound.val], compound.pos)

\* read_root: (name, compound) as [root, elements]
read_root(data, pos) ==
    LET implicit_ident == read_ident(data, pos)
        name == read_string(data, implicit_ident.pos)
        compound == read_compound(data, name.pos)
    IN IF ~implicit_ident.ok THEN implicit_ident
       ELSE IF implicit_ident.val # "TAG_Compound"
       THEN Err(InvalidImplicit(implicit_ident.val))
       ELSE IF ~name.ok THEN name
       ELSE IF ~compound.ok THEN compound
       ELSE OkAt([root |-> name.val, elements |-> compound.val], compound.pos)

----------------------------------------------------------------------------
(* blob.rs and front.rs: Blob, NBTWrite, NBTRead.                          *)

\* Blob::new()
Blob_new == [root |-> << >>, elements |-> EmptyMap]
\* Blob::create(root)
Blob_create(root) == [root |-> root, elements |-> EmptyMap]
\* Blob::insert(name, payload)
Blob_insert(b, name, payload) == [b EXCEPT !.elements = insert(@, name, payload)]

\* impl NBTWrite for Blob: write
Blob_write(w, b) == write_root(w, b.root, b.elements)
\* impl NBTWrite for Tag: write
Tag_write(w, t) == write_tag(w, t)

\* Tag::read without the ident byte taken off the stream
Tag_read_KeepIdentMut(data) ==
    LET id == read_ident(data, 1)
    IN IF ~id.ok THEN id ELSE read_tag(data, 1, id.val)

\* impl NBTRead for Tag: read
Tag_read(data) ==
    LET id == read_ident(data, 1)
    IN IF ~id.ok THEN id ELSE read_tag(data, id.pos, id.val)

\* impl NBTRead for Blob: read
Blob_read(data) == read_root(data, 1)

----------------------------------------------------------------------------
(* The inputs the model draws.                                             *)

\* "hello world"
hello_world == << 104, 101, 108, 108, 111, 32, 119, 111, 114, 108, 100 >>
\* "name"
name_str == << 110, 97, 109, 101 >>
\* "Bananrama"
Bananrama == << 66, 97, 110, 97, 110, 114, 97, 109, 97 >>
\* U+1F600, a char outside the basic multilingual plane, as a string
grin == << 128512 >>

RootNames == { hello_world, << 233 >> \o grin }
FieldNames == { name_str, grin }

\* 0x0102030405060708 and -2
LongA == [hi |-> 16909060, lo |-> << 1286, 1800 >>]
LongB == [hi |-> -1, lo |-> << 65535, 65534 >>]
FloatA == [sign |-> 1, exp |-> 133, mant |-> 705069]
FloatNaN == [sign |-> 0, exp |-> 255, mant |-> 4194304]
DoubleA == [sign |-> 0, exp |-> 1023, mant |-> << 66051, 1029, 1543 >>]
DoubleNaN == [sign |-> 1, exp |-> 2047, mant |-> << 0, 0, 1 >>]

Leaves ==
    { TagByte(-128), TagShort(258), TagInt(-16909061), TagLong(LongB),
      TagFloat(FloatA), TagFloat(FloatNaN), TagDouble(DoubleA), TagDouble(DoubleNaN),
      TagByteArray(<< -1, 2 >>), TagString(Bananrama), TagString(<< 0, 8364 >> \o grin),
      TagIntArray(<< 258, -1 >>), TagLongArray(<< LongA >>) }

\* the sequences over S of length at most n
RECURSIVE SeqsUpTo(_, _)
SeqsUpTo(S, n) ==
    IF n = 0 THEN { << >> }
    ELSE LET shorter == SeqsUpTo(S, n - 1)
         IN shorter \cup { Append(q, x) : q \in shorter, x \in S }

ListElems == { TagByte(1), TagShort(258), TagList(<< >>) }

Lists == { TagList(q) : q \in SeqsUpTo(ListElems, MaxList) }

\* a List whose second inner List is mixed; a List that is mixed from its third element
\* on; a List of Compounds; a Compound of two entries; the empty Compound
NestedMixed == TagList(<< TagList(<< TagByte(1) >>), TagList(<< TagByte(1), TagShort(258) >>) >>)
LateMixed == TagList(<< TagByte(1), TagByte(2), TagShort(258), TagList(<< >>) >>)

Nested ==
    { NestedMixed, LateMixed,
      TagList(<< TagCompound(name_str :> TagByte(1)) >>),
      TagCompound(name_str :> TagString(grin) @@ grin :> TagList(<< TagByte(7) >>)),
      TagCompound(EmptyMap) }

\* the payloads inserted into a Blob or written bare
Payloads == Leaves \cup Lists \cup Nested

\* the bytes of arbitrary input streams: End, Byte, List and Compound idents, the
\* first byte that is no ident, and a byte that is no UTF-8
RawBytes == { 0, 1, 9, 10, 13, 200 }

\* openings of input streams: nothing; a root header; a root header and a List entry's
\* header; a List header up to the middle of its length
Prefixes ==
    { << >>, << 10, 0, 0 >>, << 10, 0, 0, 9, 0, 0 >>, << 9, 0, 0, 0 >>,
      << 10, 0, 0, 9, 0, 0, 0, 0, 0 >> }

\* the document of the crate's examples, as lib.rs gives its bytes
HelloBytes ==
    << 10, 0, 11, 104, 101, 108, 108, 111, 32, 119, 111, 114, 108, 100,
       8, 0, 4, 110, 97, 109, 101, 0, 9, 66, 97, 110, 97, 110, 114, 97, 109, 97, 0 >>

\* whole streams: the example document followed by one more End byte, and a String
\* entry holding U+1F600 as Java writes it (a surrogate pair)
FixedStreams ==
    { HelloBytes \o << 0 >>,
      << 10, 0, 0, 8, 0, 0, 0, 6, 237, 160, 189, 237, 184, 128, 0 >> }

\* the most entries a compound body with repeated names holds
MaxDup == 3

\* entries of a compound body, each with its bytes on the wire (ident, name, payload):
\* a Byte and a Short under the names "a" and "b"
WireEntries ==
    { [name |-> n, payload |-> p.t, wire |-> << p.id, 0, 1 >> \o n \o p.b] :
        n \in { << 97 >>, << 98 >> },
        p \in { [t |-> TagByte(1), id |-> 1, b |-> << 1 >>],
                [t |-> TagShort(258), id |-> 2, b |-> << 1, 2 >>] } }

\* the compound body that holds the entries es in this order, closed by TAG_End
RECURSIVE Body(_)
Body(es) == IF Len(es) = 0 THEN << 0 >> ELSE Head(es).wire \o Body(Tail(es))

\* the bodies of up to MaxDup entries, names repeated or not
WireBodies == SeqsUpTo(WireEntries, MaxDup)

\* documents with an empty root name and such a body
DuplicateStreams == { << 10, 0, 0 >> \o Body(es) : es \in WireBodies }

\* bare-Tag streams (an ident byte, then a payload) whose List, array or String header
\* declares a length: more than the bytes left hold, or, for contrast, what they hold
DeclaredStreams ==
    { << 9, 1, 0, 0, 0, 3, 5, 6 >>, << 9, 1, 0, 0, 0, 2, 5, 6 >>,
      << 9, 1, 255, 255, 255, 255, 5 >>, << 9, 0, 0, 0, 0, 2 >>,
      << 9, 2, 0, 0, 0, 2, 1, 2, 3 >>, << 9, 8, 0, 0, 0, 2, 0, 0 >>,
      << 9, 8, 0, 0, 0, 3, 0, 1, 200 >>,
      << 9, 10, 0, 0, 0, 2, 0 >>, << 9, 10, 0, 0, 0, 2, 13 >>,
      << 9, 9, 0, 0, 0, 2, 1, 0, 0, 0, 0 >>,
      << 9, 9, 0, 0, 0, 1, 1, 0, 0, 0, 0 >>,
      << 7, 0, 0, 0, 4, 1, 2 >>, << 7, 0, 0, 0, 2, 1, 2 >>, << 7, 255, 255, 255, 255 >>,
      << 11, 0, 0, 0, 2, 0, 0, 0, 1 >>, << 11, 0, 1, 0, 0, 0, 0, 0, 1 >>,
      << 12, 0, 0, 0, 1, 1, 2, 3, 4 >>,
      << 8, 0, 5, 97, 98 >>, << 8, 0, 2, 97, 98 >>, << 8, 255, 255, 97 >> }

\* every proper opening of the example document
TruncatedStreams == { SubSeq(HelloBytes, 1, n) : n \in 0..(Len(HelloBytes) - 1) }

RawStreams ==
    { p \o q : p \in Prefixes, q \in SeqsUpTo(RawBytes, MaxRaw) } \cup FixedStreams
    \cup DuplicateStreams \cup DeclaredStreams \cup TruncatedStreams

----------------------------------------------------------------------------
(* ser.rs: NBTSerializer. A host value is what a Serialize impl presents   *)
(* to the Serializer: one record per shape of the serde data model.        *)

\* Option<Tag>
Some(t) == [some |-> TRUE, val |-> t]
None == [some |-> FALSE]

\* the cargo features the bridge reads
Features == { "serde_boolean", "serde_unsigned" }

HBool(b) == [kind |-> "bool", flag |-> b]
HI8(v) == [kind |-> "i8", num |-> v]
HI16(v) == [kind |-> "i16", num |-> v]
HI32(v) == [kind |-> "i32", num |-> v]
\* i64 as [hi: i32, lo: u32 in limbs], as Tag::Long holds it
HI64(v) == [kind |-> "i64", wide |-> v]
HU8(v) == [kind |-> "u8", num |-> v]
HU16(v) == [kind |-> "u16", num |-> v]
\* u32 as two 16-bit limbs
HU32(v) == [kind |-> "u32", limbs |-> v]
\* u64 as [hi: u32 in limbs, lo: u32 in limbs]
HU64(v) == [kind |-> "u64", quad |-> v]
HF32(v) == [kind |-> "f32", single |-> v]
HF64(v) == [kind |-> "f64", dbl |-> v]
\* char as its code point
HChar(c) == [kind |-> "char", num |-> c]
HStr(s) == [kind |-> "str", text |-> s]
HBytes(b) == [kind |-> "bytes", raw |-> b]
HNone == [kind |-> "none"]
HSome(x) == [kind |-> "some", inner |-> x]
HUnit == [kind |-> "unit"]
HUnitStruct == [kind |-> "unit_struct"]
HUnitVariant(variant) == [kind |-> "unit_variant", variant |-> variant]
HNewtypeStruct(x) == [kind |-> "newtype_struct", inner |-> x]
HNewtypeVariant(variant, x) == [kind |-> "newtype_variant", variant |-> variant, inner |-> x]
HSeq(items) == [kind |-> "seq", items |-> items]
HTuple(items) == [kind |-> "tuple", items |-> items]
HTupleStruct(items) == [kind |-> "tuple_struct", items |-> items]
HTupleVariant(variant, items) ==
    [kind |-> "tuple_variant", variant |-> variant, items |-> items]
\* a map as the sequence of its entries [key, value], in the order it presents them
HMap(entries) == [kind |-> "map", entries |-> entries]
\* a struct as the sequence of its fields [name, value], in declaration order
HStruct(fields) == [kind |-> "struct", fields |-> fields]
HStructVariant(variant, fields) ==
    [kind |-> "struct_variant", variant |-> variant, fields |-> fields]

\* a cast that saturates at i8::MAX where `as` wraps
U8AsI8_SaturateMut(v) == IF v < 128 THEN v ELSE 127

\* `v as i8`, `v as i16`, `v as i32`, `v as i64` of an unsigned v: same bits
U8AsI8(v) == IF v < 128 THEN v ELSE v - 256
U16AsI16(v) == IF v < 32768 THEN v ELSE v - 65536
U32AsI32(v) == ((IF v[1] < 32768 THEN v[1] ELSE v[1] - 65536) * 65536) + v[2]
U64AsI64(v) == [hi |-> U32AsI32(v.hi), lo |-> v.lo]

\* a variant wrapper that gives the payload's tag as it is
external_BareMut(name, v) == v

\* external
external(name, v) == TagCompound(name :> v)

RECURSIVE serialize(_)
RECURSIVE serialize_elements(_, _, _)
RECURSIVE serialize_fields(_, _, _)
RECURSIVE serialize_entries(_, _, _, _)

\* a sequence serializer that pushes each item in front of the ones before it
serialize_elements_ReverseMut(items, i, elements) ==
    IF i > Len(items) THEN Ok(elements)
    ELSE LET r == serialize(items[i])
         IN IF ~r.ok THEN r
            ELSE serialize_elements(items, i + 1,
                    IF r.val.some THEN << r.val.val >> \o elements ELSE elements)

\* SerializeSeq / SerializeTuple / SerializeTupleStruct / SerializeTupleVariant:
\* serialize_element or serialize_field on each item in turn; an item that serializes
\* to None is not pushed
serialize_elements(items, i, elements) ==
    IF i > Len(items) THEN Ok(elements)
    ELSE LET r == serialize(items[i])
         IN IF ~r.ok THEN r
            ELSE serialize_elements(items, i + 1,
                    IF r.val.some THEN Append(elements, r.val.val) ELSE elements)

\* a struct serializer that leaves out the last field
serialize_fields_DropLastMut(fields, i, map) ==
    IF i >= Len(fields) THEN Ok(map)
    ELSE LET r == serialize(fields[i].value)
         IN IF ~r.ok THEN r
            ELSE serialize_fields(fields, i + 1,
                    IF r.val.some THEN insert(map, fields[i].name, r.val.val) ELSE map)

\* SerializeStruct / SerializeStructVariant: serialize_field on each field in turn
serialize_fields(fields, i, map) ==
    IF i > Len(fields) THEN Ok(map)
    ELSE LET r == serialize(fields[i].value)
         IN IF ~r.ok THEN r
            ELSE serialize_fields(fields, i + 1,
                    IF r.val.some THEN insert(map, fields[i].name, r.val.val) ELSE map)

\* a map serializer that keeps the pending key after a value is stored
serialize_entries_StickyKeyMut(entries, i, map, key) ==
    IF i > Len(entries) THEN Ok(map)
    ELSE LET k == serialize(entries[i].key)
             key1 == IF k.ok /\ k.val.some /\ k.val.val.tag = "String"
                     THEN Some(k.val.val.string) ELSE key
             v == serialize(entries[i].value)
         IN IF ~k.ok THEN k
            ELSE IF ~key1.some THEN serialize_entries(entries, i + 1, map, None)
            ELSE IF ~v.ok THEN v
            ELSE serialize_entries(entries, i + 1,
                    IF v.val.some THEN insert(map, key1.val, v.val.val) ELSE map, key1)

\* SerializeMap: serialize_key then serialize_value on each entry in turn
serialize_entries(entries, i, map, key) ==
    IF i > Len(entries) THEN Ok(map)
    ELSE LET k == serialize(entries[i].key)
             key1 == IF k.ok /\ k.val.some /\ k.val.val.tag = "String"
                     THEN Some(k.val.val.string) ELSE key
             v == serialize(entries[i].value)
         IN IF ~k.ok THEN k
            ELSE IF ~key1.some THEN serialize_entries(entries, i + 1, map, None)
            ELSE IF ~v.ok THEN v
            ELSE serialize_entries(entries, i + 1,
                    IF v.val.some THEN insert(map, key1.val, v.val.val) ELSE map, None)

\* impl Serializer for NBTSerializer, driven by the value's Serialize impl
serialize(v) ==
    CASE v.kind = "bool" ->
            IF "serde_boolean" \in features THEN Ok(Some(TagByte(IF v.flag THEN 1 ELSE 0)))
            ELSE Err(UnserializableType("bool"))
      [] v.kind = "i8" -> Ok(Some(TagByte(v.num)))
      [] v.kind = "i16" -> Ok(Some(TagShort(v.num)))
      [] v.kind = "i32" -> Ok(Some(TagInt(v.num)))
      [] v.kind = "i64" -> Ok(Some(TagLong(v.wide)))
      [] v.kind = "u8" ->
            IF "serde_unsigned" \in features THEN Ok(Some(TagByte(U8AsI8(v.num))))
            ELSE Err(UnserializableType("u8"))
      [] v.kind = "u16" ->
            IF "serde_unsigned" \in features THEN Ok(Some(TagShort(U16AsI16(v.num))))
            ELSE Err(UnserializableType("u16"))
      [] v.kind = "u32" ->
            IF "serde_unsigned" \in features THEN Ok(Some(TagInt(U32AsI32(v.limbs))))
            ELSE Err(UnserializableType("u32"))
      [] v.kind = "u64" ->
            IF "serde_unsigned" \in features THEN Ok(Some(TagLong(U64AsI64(v.quad))))
            ELSE Err(UnserializableType("i64"))
      [] v.kind = "f32" -> Ok(Some(TagFloat(v.single)))
      [] v.kind = "f64" -> Ok(Some(TagDouble(v.dbl)))
      [] v.kind = "char" -> Ok(Some(TagString(<< v.num >>)))
      [] v.kind = "str" -> Ok(Some(TagString(v.text)))
      [] v.kind = "bytes" -> Err(UnserializableType("bytes"))
      [] v.kind = "none" -> Ok(None)
      [] v.kind = "some" -> serialize(v.inner)
      [] v.kind = "unit" -> Ok(None)
      [] v.kind = "unit_struct" -> Ok(None)
      [] v.kind = "unit_variant" -> Ok(Some(TagString(v.variant)))
      [] v.kind = "newtype_struct" -> serialize(v.inner)
      [] v.kind = "newtype_variant" ->
            LET r == serialize(v.inner)
            IN IF ~r.ok THEN r
               ELSE IF r.val.some THEN Ok(Some(external(v.variant, r.val.val)))
               ELSE Ok(None)
      [] v.kind \in { "seq", "tuple", "tuple_struct" } ->
            LET r == serialize_elements(v.items, 1, << >>)
            IN IF ~r.ok THEN r ELSE Ok(Some(TagList(r.val)))
      [] v.kind = "tuple_variant" ->
            LET r == serialize_elements(v.items, 1, << >>)
            IN IF ~r.ok THEN r ELSE Ok(Some(external(v.variant, TagList(r.val))))
      [] v.kind = "map" ->
            LET r == serialize_entries(v.entries, 1, EmptyMap, None)
            IN IF ~r.ok THEN r ELSE Ok(Some(TagCompound(r.val)))
      [] v.kind = "struct" ->
            LET r == serialize_fields(v.fields, 1, EmptyMap)
            IN IF ~r.ok THEN r ELSE Ok(Some(TagCompound(r.val)))
      [] v.kind = "struct_variant" ->
            LET r == serialize_fields(v.fields, 1, EmptyMap)
            IN IF ~r.ok THEN r ELSE Ok(Some(external(v.variant, TagCompound(r.val))))

\* encode_tag
encode_tag(o) == serialize(o)

----------------------------------------------------------------------------
(* de.rs: NBTDeserializer and its cursors. A host type is what a           *)
(* Deserialize impl asks of the Deserializer; its visitor builds the host  *)
(* value. A HashMap is walked in an order the program does not choose, so  *)
(* a request yields a set of results, one for each order.                  *)

TBool == [ty |-> "bool"]
TI8 == [ty |-> "i8"]
TI16 == [ty |-> "i16"]
TI32 == [ty |-> "i32"]
TI64 == [ty |-> "i64"]
TU8 == [ty |-> "u8"]
TU16 == [ty |-> "u16"]
TU32 == [ty |-> "u32"]
TU64 == [ty |-> "u64"]
TF32 == [ty |-> "f32"]
TF64 == [ty |-> "f64"]
TChar == [ty |-> "char"]
\* &str, through deserialize_str
TStr == [ty |-> "str"]
\* String, through deserialize_string
TString == [ty |-> "string"]
TBytes == [ty |-> "bytes"]
TByteBuf == [ty |-> "byte_buf"]
TOption(t) == [ty |-> "option", of |-> t]
TUnit == [ty |-> "unit"]
TUnitStruct == [ty |-> "unit_struct"]
TNewtypeStruct(t) == [ty |-> "newtype_struct", of |-> t]
\* Vec<t>
TSeq(t) == [ty |-> "seq", of |-> t]
TTuple(parts) == [ty |-> "tuple", parts |-> parts]
TTupleStruct(parts) == [ty |-> "tuple_struct", parts |-> parts]
\* a map with String keys
TMap(t) == [ty |-> "map", of |-> t]
\* a struct by its fields [name, of], in declaration order
TStruct(decl) == [ty |-> "struct", decl |-> decl]
\* an enum by its variants [name, of], `of` one of the four variant shapes
TEnum(variants) == [ty |-> "enum", variants |-> variants]
VUnit == [ty |-> "unit_variant"]
VNewtype(t) == [ty |-> "newtype_variant", of |-> t]
VTuple(parts) == [ty |-> "tuple_variant", parts |-> parts]
VStruct(decl) == [ty |-> "struct_variant", decl |-> decl]
\* a type that takes whatever the tag holds, through deserialize_any
TAny == [ty |-> "any"]

\* `x as u8`, `x as u16`, `x as u32`, `x as u64` of a signed x: same bits
I8AsU8(x) == (x + 256) % 256
I16AsU16(x) == (x + 65536) % 65536
I32AsU32(x) == << (x \div 65536) % 65536, x % 65536 >>
I64AsU64(x) == [hi |-> I32AsU32(x.hi), lo |-> x.lo]

\* unimplemented!(): the call does not return
Panic == [ok |-> FALSE, err |-> [error |-> "panic"]]

\* the index of the declaration named `name`, 0 when there is none
Declared(decl, name) ==
    LET found == { j \in 1..Len(decl) : decl[j].name = name }
    IN IF found = {} THEN 0 ELSE Min(found)

RECURSIVE deserialize(_, _)
RECURSIVE next_elements(_, _, _)
RECURSIVE tuple_elements(_, _, _, _)
RECURSIVE struct_entries(_, _, _, _, _)
RECURSIVE struct_finish(_, _, _, _)
RECURSIVE map_entries(_, _, _, _, _)

\* Vec's visitor over NBTSeqAccess: next_element until the cursor is empty
next_elements(t, data, items) ==
    IF Len(data) = 0 THEN { Ok(items) }
    ELSE UNION { IF r.ok THEN next_elements(t, Tail(data), Append(items, r.val))
                 ELSE { r } : r \in deserialize(t, Some(Head(data))) }

\* a tuple's visitor over NBTSeqAccess: one next_element for each part; an empty
\* cursor is an invalid length; what is left in the cursor is not looked at
tuple_elements(parts, i, data, items) ==
    IF i > Len(parts) THEN { Ok(items) }
    ELSE IF Len(data) = 0 THEN { Err(Custom("invalid length")) }
    ELSE UNION { IF r.ok THEN tuple_elements(parts, i + 1, Tail(data), Append(items, r.val))
                 ELSE { r } : r \in deserialize(parts[i], Some(Head(data))) }

\* the end of a struct's visitor: a field that was not met is None when it is an
\* Option and a missing field otherwise
struct_finish(decl, j, got, fields) ==
    IF j > Len(decl) THEN Ok(fields)
    ELSE IF decl[j].name \in DOMAIN got
    THEN struct_finish(decl, j + 1, got,
            Append(fields, [name |-> decl[j].name, value |-> got[decl[j].name]]))
    ELSE IF decl[j].of.ty = "option"
    THEN struct_finish(decl, j + 1, got,
            Append(fields, [name |-> decl[j].name, value |-> HNone]))
    ELSE Err(Custom("missing field"))

\* a struct's visitor over NBTMapAccess: next_key as a field identifier, then
\* next_value as the field's type, or as IgnoredAny for a name that is no field
struct_entries(decl, compound, order, i, got) ==
    IF i > Len(order) THEN { struct_finish(decl, 1, got, << >>) }
    ELSE LET j == Declared(decl, order[i])
         IN IF j = 0 THEN { Panic }
            ELSE UNION { IF r.ok
                         THEN struct_entries(decl, compound, order, i + 1,
                                             insert(got, order[i], r.val))
                         ELSE { r }
                         : r \in deserialize(decl[j].of, Some(compound[order[i]])) }

\* a map's visitor over NBTMapAccess: next_key as a String, next_value as t
map_entries(t, compound, order, i, entries) ==
    IF i > Len(order) THEN { Ok(entries) }
    ELSE UNION { IF r.ok
                 THEN map_entries(t, compound, order, i + 1,
                        Append(entries, [key |-> HStr(order[i]), value |-> r.val]))
                 ELSE { r }
                 : r \in deserialize(t, Some(compound[order[i]])) }

\* basic_type!: the tag must be the variant asked for
basic_type(value, variant, id, name, result) ==
    IF ~value.some THEN Err(NoData(name))
    ELSE IF value.val.tag = variant THEN Ok(result)
    ELSE Err(InvalidType(ident(value.val), id, name))

\* unsigned_type!: as basic_type! under serde_unsigned, a refusal without it
unsigned_type(value, variant, id, name, result) ==
    IF "serde_unsigned" \in features THEN basic_type(value, variant, id, name, result)
    ELSE Err(UnserializableType(name))

\* a container request: the tag must be the variant asked for
container(value, variant, id, none, when, results) ==
    IF ~value.some THEN { Err(NoData(none)) }
    ELSE IF value.val.tag = variant THEN results
    ELSE { Err(InvalidType(ident(value.val), id, when)) }

\* Ok(wrap(r.val)) for the results that are Ok
Lift(results, kind) ==
    { IF r.ok THEN Ok([kind |-> kind, items |-> r.val]) ELSE r : r \in results }

\* the elements of an array tag, boxed: list.into_iter().map(|x| Tag::Byte(x)).collect()
Boxed(array) ==
    CASE array.tag = "ByteArray" -> [i \in 1..Len(array.bytes) |-> TagByte(array.bytes[i])]
      [] array.tag = "IntArray" -> [i \in 1..Len(array.ints) |-> TagInt(array.ints[i])]
      [] array.tag = "LongArray" -> [i \in 1..Len(array.longs) |-> TagLong(array.longs[i])]

\* NBTEnumAccess as VariantAccess, under the enum's visitor: the key must name a
\* variant, and the variant's shape says which of unit_variant, newtype_variant_seed,
\* tuple_variant and struct_variant is called on the content
variant_access(variants, key, content) ==
    LET j == Declared(variants, key)
        shape == variants[j].of
    IN IF j = 0 THEN { Err(Custom("unknown variant")) }
       ELSE CASE shape.ty = "unit_variant" -> { Ok(HUnitVariant(key)) }
              [] shape.ty = "newtype_variant" ->
                    { IF r.ok THEN Ok(HNewtypeVariant(key, r.val)) ELSE r
                      : r \in deserialize(shape.of, Some(content)) }
              [] shape.ty = "tuple_variant" ->
                    { IF r.ok THEN Ok(HTupleVariant(key, r.val.items)) ELSE r
                      : r \in deserialize(TTuple(shape.parts), Some(content)) }
              [] shape.ty = "struct_variant" ->
                    { IF r.ok THEN Ok(HStructVariant(key, r.val.fields)) ELSE r
                      : r \in deserialize(TStruct(shape.decl), Some(content)) }

\* NBTEnumAccess::variant_seed: the first entry of the Compound, in the HashMap's order
variant_seed(variants, content) ==
    IF ~content.some THEN { Err(NoData("enum map")) }
    ELSE IF content.val.tag # "Compound"
    THEN { Err(InvalidType(ident(content.val), "TAG_Compound", "enum map")) }
    ELSE IF DOMAIN content.val.compound = {}
    THEN { Err(InvalidType("TAG_End", "TAG_Compound", "enum map")) }
    ELSE UNION { variant_access(variants, key, content.val.compound[key])
                 : key \in DOMAIN content.val.compound }

\* deserialize_any, under a visitor that takes every visit
deserialize_any(value) ==
    IF ~value.some THEN { Ok(HNone) }
    ELSE LET data == value.val
         IN CASE data.tag = "Byte" -> { Ok(HI8(data.byte)) }
              [] data.tag = "Short" -> { Ok(HI16(data.short)) }
              [] data.tag = "Int" -> { Ok(HI32(data.int)) }
              [] data.tag = "Long" -> { Ok(HI64(data.long)) }
              [] data.tag = "Float" -> { Ok(HF32(data.float)) }
              [] data.tag = "Double" -> { Ok(HF64(data.double)) }
              [] data.tag = "String" -> { Ok(HStr(data.string)) }
              [] data.tag \in { "ByteArray", "IntArray", "LongArray" } ->
                    Lift(next_elements(TAny, Boxed(data), << >>), "seq")
              [] data.tag = "List" -> Lift(next_elements(TAny, data.list, << >>), "seq")
              [] data.tag = "Compound" ->
                    UNION { { IF r.ok THEN Ok(HMap(r.val)) ELSE r
                              : r \in map_entries(TAny, data.compound, order, 1, << >>) }
                            : order \in IterOrders(DOMAIN data.compound) }

\* impl Deserializer for NBTDeserializer, driven by the type's Deserialize impl
deserialize(t, value) ==
    CASE t.ty = "any" -> deserialize_any(value)
      [] t.ty = "bool" ->
            { IF "serde_boolean" \notin features THEN Err(UnserializableType("bool"))
              ELSE IF ~value.some THEN Err(NoData("char"))
              ELSE IF value.val.tag = "Byte" THEN Ok(HBool(value.val.byte = 1))
              ELSE Err(InvalidType(ident(value.val), "TAG_Byte", "bool")) }
      [] t.ty = "i8" -> { basic_type(value, "Byte", "TAG_Byte", "i8", HI8(value.val.byte)) }
      [] t.ty = "i16" ->
            { basic_type(value, "Short", "TAG_Short", "i16", HI16(value.val.short)) }
      [] t.ty = "i32" -> { basic_type(value, "Int", "TAG_Int", "i32", HI32(value.val.int)) }
      [] t.ty = "i64" -> { basic_type(value, "Long", "TAG_Long", "i64", HI64(value.val.long)) }
      [] t.ty = "u8" ->
            { unsigned_type(value, "Byte", "TAG_Byte", "u8", HU8(I8AsU8(value.val.byte))) }
      [] t.ty = "u16" ->
            { unsigned_type(value, "Short", "TAG_Short", "u16",
                            HU16(I16AsU16(value.val.short))) }
      [] t.ty = "u32" ->
            { unsigned_type(value, "Int", "TAG_Int", "u32", HU32(I32AsU32(value.val.int))) }
      [] t.ty = "u64" ->
            { unsigned_type(value, "Long", "TAG_Long", "u64",
                            HU64(I64AsU64(value.val.long))) }
      [] t.ty = "f32" ->
            { basic_type(value, "Float", "TAG_Float", "f32", HF32(value.val.float)) }
      [] t.ty = "f64" ->
            { basic_type(value, "Double", "TAG_Double", "f64", HF64(value.val.double)) }
      [] t.ty = "char" ->
            { IF ~value.some THEN Err(NoData("char"))
              ELSE IF value.val.tag = "String"
              THEN IF Len(as_bytes(value.val.string)) = 1
                   THEN Ok(HChar(value.val.string[1]))
                   ELSE Err(InvalidChar)
              ELSE Err(InvalidType(ident(value.val), "TAG_String", "char")) }
      [] t.ty \in { "str", "string" } ->
            { IF ~value.some THEN Err(NoData("char"))
              ELSE IF value.val.tag = "String" THEN Ok(HStr(value.val.string))
              ELSE Err(InvalidType(ident(value.val), "TAG_String", "char")) }
      [] t.ty \in { "bytes", "byte_buf" } -> { Err(UnserializableType("bytes")) }
      [] t.ty = "option" ->
            IF ~value.some THEN { Ok(HNone) }
            ELSE { IF r.ok THEN Ok(HSome(r.val)) ELSE r : r \in deserialize(t.of, value) }
      [] t.ty \in { "unit", "unit_struct" } ->
            { IF ~value.some THEN Ok(IF t.ty = "unit" THEN HUnit ELSE HUnitStruct)
              ELSE Err(InvalidType(ident(value.val), "TAG_End", "unit")) }
      [] t.ty = "newtype_struct" ->
            IF ~value.some THEN { Err(NoData("newtype_struct")) }
            ELSE { IF r.ok THEN Ok(HNewtypeStruct(r.val)) ELSE r
                   : r \in deserialize(t.of, value) }
      [] t.ty = "seq" ->
            container(value, "List", "TAG_List", "seq", "seq",
                      Lift(next_elements(t.of, value.val.list, << >>), "seq"))
      [] t.ty \in { "tuple", "tuple_struct" } ->
            container(value, "List", "TAG_List", "tuple", "tuple",
                      Lift(tuple_elements(t.parts, 1, value.val.list, << >>), t.ty))
      [] t.ty = "map" ->
            container(value, "Compound", "TAG_Compound", "tag", "map",
                      UNION { { IF r.ok THEN Ok(HMap(r.val)) ELSE r
                                : r \in map_entries(t.of, value.val.compound, order, 1, << >>) }
                              : order \in IterOrders(DOMAIN value.val.compound) })
      [] t.ty = "struct" ->
            container(value, "Compound", "TAG_Compound", "struct", "struct",
                      UNION { { IF r.ok THEN Ok(HStruct(r.val)) ELSE r
                                : r \in struct_entries(t.decl, value.val.compound, order, 1,
                                                       EmptyMap) }
                              : order \in IterOrders(DOMAIN value.val.compound) })
      [] t.ty = "enum" -> variant_seed(t.variants, value)

\* decode_tag
decode_tag(t, data) == deserialize(t, Some(data))

----------------------------------------------------------------------------
(* The state machine: a program builds a Blob and writes it, or writes a   *)
(* bare Tag, or is handed bytes; then it reads what it has.                *)

NoRead == [op |-> "none", res |-> NoResult]

\* no value was given to the serializer, no type asked of the deserializer
NoValue == [kind |-> "no value"]
NoType == [ty |-> "no type"]

\* nothing was written or read yet
CodecIdle ==
    /\ pc = "idle"
    /\ blob = Blob_new
    /\ tag = NoTag
    /\ origin = "none"
    /\ buf = << >>
    /\ wres = NoResult
    /\ rres = NoRead

\* the serde bridge was not used yet
BridgeIdle ==
    /\ host = NoValue
    /\ ser = NoResult
    /\ request = NoType
    /\ given = None
    /\ de = NoResult

\* no cursor was built yet
AccessIdle ==
    /\ cursor = "none"
    /\ seq_access = [data |-> << >>]
    /\ map_access = [data |-> << >>, value |-> None]
    /\ stored = << >>
    /\ calls = << >>

\* a build without the optional features, before anything is done
Init == CodecIdle /\ BridgeIdle /\ AccessIdle /\ features = { }

\* let mut blob = Blob::create(root)
Create(root) ==
    /\ pc = "idle"
    /\ blob' = Blob_create(root)
    /\ UNCHANGED << pc, tag, origin, buf, wres, rres >>
    /\ UNCHANGED bridge
    /\ UNCHANGED access

\* blob.insert(name, payload)
Insert(name, payload) ==
    /\ pc = "idle"
    /\ blob' = Blob_insert(blob, name, payload)
    /\ UNCHANGED << pc, tag, origin, buf, wres, rres >>
    /\ UNCHANGED bridge
    /\ UNCHANGED access

\* blob.bytes(): write into an empty Vec
BlobWrite ==
    /\ pc = "idle"
    /\ \E r \in Blob_write(<< >>, blob) :
        /\ buf' = r.buf
        /\ wres' = r.res
        /\ pc' = IF r.res.ok THEN "ready" ELSE "failed"
    /\ origin' = "Blob::write"
    /\ UNCHANGED << blob, tag, rres >>
    /\ UNCHANGED bridge
    /\ UNCHANGED access

\* t.bytes(), or buffer = vec![ident byte of t]; t.write(&mut buffer)
TagWrite(t, framed) ==
    /\ pc = "idle"
    /\ blob = Blob_new
    /\ \E r \in Tag_write(IF framed THEN << IdentAsU8(ident(t)) >> ELSE << >>, t) :
        /\ buf' = r.buf
        /\ wres' = r.res
        /\ pc' = IF r.res.ok THEN "ready" ELSE "failed"
    /\ tag' = t
    /\ origin' = IF framed THEN "ident, Tag::write" ELSE "Tag::write"
    /\ UNCHANGED << blob, rres >>
    /\ UNCHANGED bridge
    /\ UNCHANGED access

\* the bytes come from elsewhere: from_bytes(data) wraps them in a Cursor
FromBytes(data) ==
    /\ pc = "idle"
    /\ blob = Blob_new
    /\ buf' = data
    /\ origin' = "from_bytes"
    /\ pc' = "ready"
    /\ UNCHANGED << blob, tag, wres, rres >>
    /\ UNCHANGED bridge
    /\ UNCHANGED access

\* Blob::from_bytes(buf)
BlobRead ==
    /\ pc = "ready"
    /\ rres' = [op |-> "Blob::read", res |-> Blob_read(buf)]
    /\ pc' = "done"
    /\ UNCHANGED << blob, tag, origin, buf, wres >>
    /\ UNCHANGED bridge
    /\ UNCHANGED access

\* Tag::from_bytes(buf)
TagRead ==
    /\ pc = "ready"
    /\ rres' = [op |-> "Tag::read", res |-> Tag_read(buf)]
    /\ pc' = "done"
    /\ UNCHANGED << blob, tag, origin, buf, wres >>
    /\ UNCHANGED bridge
    /\ UNCHANGED access

Next ==
    \/ \E root \in RootNames : Create(root)
    \/ \E name \in FieldNames, payload \in Payloads : Insert(name, payload)
    \/ BlobWrite
    \/ \E t \in Payloads, framed \in BOOLEAN : TagWrite(t, framed)
    \/ \E data \in RawStreams : FromBytes(data)
    \/ BlobRead
    \/ TagRead

Spec == Init /\ [][Next]_vars

----------------------------------------------------------------------------
(* The serde bridge: a program gives a host value to encode_tag and asks   *)
(* for a host type back with decode_tag, or builds an NBTDeserializer on   *)
(* an Option<Tag> of its own and asks a host type of it.                   *)

\* "Hello World!"
HelloWorld == << 72, 101, 108, 108, 111, 32, 87, 111, 114, 108, 100, 33 >>
\* the field names "foo", "bar", "baz", "deg"
foo == << 102, 111, 111 >>
bar == << 98, 97, 114 >>
baz == << 98, 97, 122 >>
deg == << 100, 101, 103 >>
\* the variant names "Stop", "Go", "Move", "Turn"
Stop == << 83, 116, 111, 112 >>
Go == << 71, 111 >>
Move == << 77, 111, 118, 101 >>
Turn == << 84, 117, 114, 110 >>

\* struct Example { foo: String, bar: i8, baz: Vec<i32> }
ExampleType ==
    TStruct(<< [name |-> foo, of |-> TString], [name |-> bar, of |-> TI8],
               [name |-> baz, of |-> TSeq(TI32)] >>)
Example(f, b, z) ==
    HStruct(<< [name |-> foo, value |-> HStr(f)], [name |-> bar, value |-> HI8(b)],
               [name |-> baz, value |-> HSeq(z)] >>)

\* struct Wide { foo: String, bar: i64, baz: Vec<i16> }
WideType ==
    TStruct(<< [name |-> foo, of |-> TString], [name |-> bar, of |-> TI64],
               [name |-> baz, of |-> TSeq(TI16)] >>)
Wide(f, b, z) ==
    HStruct(<< [name |-> foo, value |-> HStr(f)], [name |-> bar, value |-> HI64(b)],
               [name |-> baz, value |-> HSeq(z)] >>)

\* enum Action { Stop, Go(i8), Move(i32, i32), Turn { deg: i16 } }
ActionType ==
    TEnum(<< [name |-> Stop, of |-> VUnit], [name |-> Go, of |-> VNewtype(TI8)],
             [name |-> Move, of |-> VTuple(<< TI32, TI32 >>)],
             [name |-> Turn, of |-> VStruct(<< [name |-> deg, of |-> TI16] >>)] >>)

\* enum Sign { Go(Option<i8>), Stop }
SignType ==
    TEnum(<< [name |-> Go, of |-> VNewtype(TOption(TI8))], [name |-> Stop, of |-> VUnit] >>)

\* the host values the model draws, each with its type
Samples ==
    { [v |-> HBool(TRUE), t |-> TBool], [v |-> HBool(FALSE), t |-> TBool],
      [v |-> HI8(42), t |-> TI8], [v |-> HI16(-258), t |-> TI16],
      [v |-> HI32(-16909061), t |-> TI32], [v |-> HI64(LongB), t |-> TI64],
      [v |-> HU8(0), t |-> TU8], [v |-> HU8(200), t |-> TU8], [v |-> HU8(255), t |-> TU8],
      [v |-> HU16(7), t |-> TU16], [v |-> HU16(65535), t |-> TU16],
      [v |-> HU32(<< 1, 2 >>), t |-> TU32], [v |-> HU32(<< 65535, 65534 >>), t |-> TU32],
      [v |-> HU64([hi |-> << 0, 3 >>, lo |-> << 4, 5 >>]), t |-> TU64],
      [v |-> HU64([hi |-> << 32768, 0 >>, lo |-> << 0, 1 >>]), t |-> TU64],
      [v |-> HF32(FloatA), t |-> TF32], [v |-> HF64(DoubleA), t |-> TF64],
      [v |-> HChar(97), t |-> TChar], [v |-> HChar(233), t |-> TChar],
      [v |-> HChar(128512), t |-> TChar],
      [v |-> HStr(Bananrama), t |-> TString], [v |-> HStr(<< >>), t |-> TString],
      [v |-> HBytes(<< 1, 2 >>), t |-> TBytes],
      [v |-> HNone, t |-> TOption(TI8)], [v |-> HSome(HI8(1)), t |-> TOption(TI8)],
      [v |-> HUnit, t |-> TUnit], [v |-> HUnitStruct, t |-> TUnitStruct],
      [v |-> HNewtypeStruct(HI32(5)), t |-> TNewtypeStruct(TI32)],
      [v |-> HSeq(<< HI8(1), HI8(2) >>), t |-> TSeq(TI8)],
      [v |-> HSeq(<< HSome(HI8(1)), HNone, HSome(HI8(3)) >>), t |-> TSeq(TOption(TI8))],
      [v |-> HTuple(<< HI8(1), HStr(foo) >>), t |-> TTuple(<< TI8, TString >>)],
      [v |-> HTupleStruct(<< HI16(1), HI16(2) >>), t |-> TTupleStruct(<< TI16, TI16 >>)],
      [v |-> HMap(<< [key |-> HStr(foo), value |-> HI8(1)],
                     [key |-> HStr(bar), value |-> HI8(2)] >>), t |-> TMap(TI8)],
      [v |-> HMap(<< [key |-> HStr(foo), value |-> HI8(1)],
                     [key |-> HI32(5), value |-> HI8(2)] >>), t |-> TMap(TI8)],
      [v |-> HMap(<< [key |-> HI32(5), value |-> HI8(2)],
                     [key |-> HStr(bar), value |-> HI8(3)],
                     [key |-> HI16(6), value |-> HBytes(<< 1 >>)] >>), t |-> TMap(TI8)],
      [v |-> Example(HelloWorld, 42, << HI32(420), HI32(69), HI32(666) >>),
       t |-> ExampleType],
      [v |-> Example(<< 233, 128512 >>, -128, << >>), t |-> ExampleType],
      [v |-> Wide(<< >>, LongA, << HI16(-1) >>), t |-> WideType],
      [v |-> HUnitVariant(Stop), t |-> ActionType],
      [v |-> HNewtypeVariant(Go, HI8(3)), t |-> ActionType],
      [v |-> HTupleVariant(Move, << HI32(1), HI32(2) >>), t |-> ActionType],
      [v |-> HTupleVariant(Move, << HI32(-7), HI32(-7) >>), t |-> ActionType],
      [v |-> HStructVariant(Turn, << [name |-> deg, value |-> HI16(90)] >>),
       t |-> ActionType],
      [v |-> HNewtypeVariant(Go, HNone), t |-> SignType],
      [v |-> HNewtypeVariant(Go, HSome(HI8(9))), t |-> SignType] }

HostValues == { s.v : s \in Samples }

\* the type a drawn host value has
HostType(v) == (CHOOSE s \in Samples : s.v = v).t

\* the types the model asks for
HostTypes ==
    { s.t : s \in Samples }
    \cup { TStr, TByteBuf, TAny, TSeq(TI32), TSeq(TI64), TMap(TAny),
           TStruct(<< [name |-> foo, of |-> TString], [name |-> bar, of |-> TOption(TI8)] >>) }

\* the Option<Tag> values a program hands to NBTDeserializer::new
GivenTags ==
    { None }
    \cup { Some(t) : t \in Leaves }
    \cup { Some(TagByte(0)), Some(TagByte(1)), Some(TagString(<< >>)),
           Some(TagString(<< 97 >>)), Some(TagString(<< 233 >>)),
           Some(TagString(<< 97, 98 >>)), Some(TagString(Stop)),
           Some(TagList(<< >>)), Some(TagList(<< TagInt(1), TagInt(2) >>)),
           Some(TagList(<< TagByte(1), TagByte(2) >>)),
           Some(TagCompound(EmptyMap)),
           Some(TagCompound(Move :> TagList(<< TagInt(1), TagInt(2) >>))),
           Some(TagCompound(Stop :> TagByte(0))),
           Some(TagCompound(foo :> TagByte(1))),
           Some(TagCompound(Move :> TagList(<< TagInt(1), TagInt(2) >>)
                            @@ Go :> TagByte(3))),
           Some(TagCompound(foo :> TagString(foo) @@ bar :> TagByte(1))),
           Some(TagCompound(foo :> TagString(foo) @@ baz :> TagByte(1))) }

\* the build is one of the four feature sets
BridgeInit == CodecIdle /\ BridgeIdle /\ AccessIdle /\ features \in SUBSET Features

\* encode_tag(&o)
EncodeTag(o) ==
    /\ host = NoValue
    /\ request = NoType
    /\ host' = o
    /\ ser' = encode_tag(o)
    /\ UNCHANGED << pc, blob, tag, origin, buf, wres, rres >>
    /\ UNCHANGED << features, request, given, de >>
    /\ UNCHANGED access

\* decode_tag::<t>(tag) on the Tag that encode_tag returned
DecodeTag(t) ==
    /\ request = NoType
    /\ ser.ok
    /\ ser.val.some
    /\ request' = t
    /\ given' = ser.val
    /\ de' \in decode_tag(t, ser.val.val)
    /\ UNCHANGED << pc, blob, tag, origin, buf, wres, rres >>
    /\ UNCHANGED << features, host, ser >>
    /\ UNCHANGED access

\* t::deserialize(NBTDeserializer::new(value))
Deserialize(t, value) ==
    /\ host = NoValue
    /\ request = NoType
    /\ request' = t
    /\ given' = value
    /\ de' \in deserialize(t, value)
    /\ UNCHANGED << pc, blob, tag, origin, buf, wres, rres >>
    /\ UNCHANGED << features, host, ser >>
    /\ UNCHANGED access

BridgeNext ==
    \/ \E o \in HostValues : EncodeTag(o)
    \/ \E t \in HostTypes : DecodeTag(t)
    \/ \E t \in HostTypes, value \in GivenTags : Deserialize(t, value)

BridgeSpec == BridgeInit /\ [][BridgeNext]_vars

----------------------------------------------------------------------------
(* de.rs: NBTSeqAccess and NBTMapAccess, driven call by call. A program    *)
(* (a visitor) builds a cursor on a List's elements or on a Compound's     *)
(* entries and calls next_element, or next_key and next_value in any       *)
(* interleaving, each with a seed: the type the call asks for.             *)

\* the most elements a cursor is built on; the most calls made on a cursor
MaxStored == 3
MaxCalls == 4

\* NBTSeqAccess::new
NBTSeqAccess_new(s) == [data |-> s]

\* NBTMapAccess::new: s.into_iter().collect(), in the order the HashMap gives
NBTMapAccess_new(s) ==
    { [data |-> [i \in 1..Len(o) |-> [name |-> o[i], payload |-> s[o[i]]]],
       value |-> None] : o \in IterOrders(DOMAIN s) }

\* Ok(Some(seed.deserialize(..)?))
Yield(r) == IF r.ok THEN Ok(Some(r.val)) ELSE r

\* a cursor that hands out its first element and keeps it
next_element_seed_PeekMut(self, t) ==
    IF Len(self.data) = 0 THEN { [self |-> self, res |-> Ok(None)] }
    ELSE { [self |-> self, res |-> Yield(r)]
           : r \in deserialize(t, Some(Head(self.data))) }

\* NBTSeqAccess::next_element_seed with the seed t: the cursor after the call and
\* the call's result
next_element_seed(self, t) ==
    IF Len(self.data) = 0 THEN { [self |-> self, res |-> Ok(None)] }
    ELSE { [self |-> [data |-> Tail(self.data)], res |-> Yield(r)]
           : r \in deserialize(t, Some(Head(self.data))) }

\* NBTMapAccess::next_key_seed with the seed t
next_key_seed(self, t) ==
    IF Len(self.data) = 0 THEN { [self |-> self, res |-> Ok(None)] }
    ELSE { [self |-> [data |-> Tail(self.data), value |-> Some(Head(self.data).payload)],
            res |-> Yield(r)]
           : r \in deserialize(t, Some(TagString(Head(self.data).name))) }

\* a cursor whose next_value leaves the value in place
next_value_seed_KeepMut(self, t) ==
    { [self |-> self, res |-> r] : r \in deserialize(t, self.value) }

\* NBTMapAccess::next_value_seed with the seed t
next_value_seed(self, t) ==
    { [self |-> [data |-> self.data, value |-> None], res |-> r]
      : r \in deserialize(t, self.value) }

\* the call made, with its seed and its result
Call(op, t, res) == [op |-> op, seed |-> t, res |-> res]

\* the elements and the entries cursors are built on: Lists need not be homogeneous
CursorElems == { TagByte(1), TagShort(258), TagString(<< 97 >>) }
CursorLists == SeqsUpTo(CursorElems, MaxStored)
CursorNames == { << 97 >>, << 98 >> }
CursorCompounds ==
    UNION { [names -> { TagByte(1), TagShort(258) }] : names \in SUBSET CursorNames }

\* the seeds of the calls
ElementSeeds == { TI8, TI16, TAny }
KeySeeds == { TString, TI8 }
ValueSeeds == { TI8, TI16, TAny }

\* let mut seq = NBTSeqAccess::new(list)
SeqNew(list) ==
    /\ cursor = "none"
    /\ cursor' = "seq"
    /\ seq_access' = NBTSeqAccess_new(list)
    /\ stored' = list
    /\ calls' = << >>
    /\ UNCHANGED << pc, blob, tag, origin, buf, wres, rres >>
    /\ UNCHANGED bridge
    /\ UNCHANGED map_access

\* seq.next_element_seed(seed)
NextElement(t) ==
    /\ cursor = "seq"
    /\ Len(calls) < MaxCalls
    /\ \E o \in next_element_seed(seq_access, t) :
        /\ seq_access' = o.self
        /\ calls' = Append(calls, Call("next_element", t, o.res))
    /\ UNCHANGED << pc, blob, tag, origin, buf, wres, rres >>
    /\ UNCHANGED bridge
    /\ UNCHANGED << cursor, map_access, stored >>

\* let mut map = NBTMapAccess::new(compound)
MapNew(compound) ==
    /\ cursor = "none"
    /\ cursor' = "map"
    /\ \E a \in NBTMapAccess_new(compound) :
        /\ map_access' = a
        /\ stored' = a.data
    /\ calls' = << >>
    /\ UNCHANGED << pc, blob, tag, origin, buf, wres, rres >>
    /\ UNCHANGED bridge
    /\ UNCHANGED seq_access

\* map.next_key_seed(seed)
NextKey(t) ==
    /\ cursor = "map"
    /\ Len(calls) < MaxCalls
    /\ \E o \in next_key_seed(map_access, t) :
        /\ map_access' = o.self
        /\ calls' = Append(calls, Call("next_key", t, o.res))
    /\ UNCHANGED << pc, blob, tag, origin, buf, wres, rres >>
    /\ UNCHANGED bridge
    /\ UNCHANGED << cursor, seq_access, stored >>

\* map.next_value_seed(seed)
NextValue(t) ==
    /\ cursor = "map"
    /\ Len(calls) < MaxCalls
    /\ \E o \in next_value_seed(map_access, t) :
        /\ map_access' = o.self
        /\ calls' = Append(calls, Call("next_value", t, o.res))
    /\ UNCHANGED << pc, blob, tag, origin, buf, wres, rres >>
    /\ UNCHANGED bridge
    /\ UNCHANGED << cursor, seq_access, stored >>

CursorNext ==
    \/ \E list \in CursorLists : SeqNew(list)
    \/ \E t \in ElementSeeds : NextElement(t)
    \/ \E compound \in CursorCompounds : MapNew(compound)
    \/ \E t \in KeySeeds : NextKey(t)
    \/ \E t \in ValueSeeds : NextValue(t)

CursorSpec == Init /\ [][CursorNext]_vars

----------------------------------------------------------------------------
(* Vocabulary of the properties.                                           *)

\* the largest length a 16-bit prefix holds
U16Max == 65535

\* every List of the tree holds elements of one TagIdent
RECURSIVE Homogeneous(_)
Homogeneous(t) ==
    CASE t.tag = "List" ->
            \A i \in 1..Len(t.list) :
                ident(t.list[i]) = ident(t.list[1]) /\ Homogeneous(t.list[i])
      [] t.tag = "Compound" -> \A n \in DOMAIN t.compound : Homogeneous(t.compound[n])
      [] OTHER -> TRUE

\* no Float or Double of the tree is a NaN
RECURSIVE NoNaN(_)
NoNaN(t) ==
    CASE t.tag = "Float" -> ~F32IsNaN(t.float)
      [] t.tag = "Double" -> ~F64IsNaN(t.double)
      [] t.tag = "List" -> \A i \in 1..Len(t.list) : NoNaN(t.list[i])
      [] t.tag = "Compound" -> \A n \in DOMAIN t.compound : NoNaN(t.compound[n])
      [] OTHER -> TRUE

\* every String and every name of the tree has at most U16Max bytes of UTF-8
RECURSIVE StringsFit(_)
StringsFit(t) ==
    CASE t.tag = "String" -> Len(as_bytes(t.string)) <= U16Max
      [] t.tag = "List" -> \A i \in 1..Len(t.list) : StringsFit(t.list[i])
      [] t.tag = "Compound" ->
            \A n \in DOMAIN t.compound :
                Len(as_bytes(n)) <= U16Max /\ StringsFit(t.compound[n])
      [] OTHER -> TRUE

\* the Blob's tree
Document == TagCompound(blob.elements)

\* the Blob was written, and the bytes were read back as a Blob
BlobRoundTrip == pc = "done" /\ origin = "Blob::write" /\ rres.op = "Blob::read"

\* the Blob read back equals the Blob written: same root name, equal trees
ReadBackEqual ==
    /\ rres.res.ok
    /\ rres.res.val.root = blob.root
    /\ MapEq(rres.res.val.elements, blob.elements)

----------------------------------------------------------------------------
(* C1 *)

\* C1, as stated: a Blob whose Lists are all homogeneous, written and read back,
\* comes back equal: same root name, equal tree.
C1_RoundTrip_AsStated ==
    (BlobRoundTrip /\ Homogeneous(Document)) => ReadBackEqual

\* C1, amended: a Blob whose Lists are all homogeneous is written without error;
\* if moreover no Float or Double in it is a NaN and every string of it (root name,
\* field names, String payloads) has at most 65535 bytes of UTF-8, then reading the
\* bytes back consumes all of them and returns an equal Blob.
C1_RoundTrip ==
    /\ (origin = "Blob::write" /\ Homogeneous(Document)) => wres.ok
    /\ ( /\ BlobRoundTrip
         /\ Homogeneous(Document)
         /\ NoNaN(Document)
         /\ Len(as_bytes(blob.root)) <= U16Max /\ StringsFit(Document) )
       => (ReadBackEqual /\ rres.res.pos = Len(buf) + 1)

\* a two-entry Blob with a non-ASCII root name and a two-element List came back
C1_Witness ==
    /\ BlobRoundTrip
    /\ blob.root = << 233 >> \o grin
    /\ Cardinality(DOMAIN blob.elements) = 2
    /\ \E n \in DOMAIN blob.elements :
            blob.elements[n].tag = "List" /\ Len(blob.elements[n].list) = 2
    /\ Homogeneous(Document) /\ NoNaN(Document)
    /\ ReadBackEqual

----------------------------------------------------------------------------
(* C2 *)

\* Blob::create("hello world") with insert("name", "Bananrama")
HelloDoc == Blob_insert(Blob_create(hello_world), name_str, TagString(Bananrama))

\* C2, as stated: the bytes written for the example document end with two End bytes.
C2_HelloBytes_AsStated ==
    (origin = "Blob::write" /\ blob = HelloDoc) => buf = HelloBytes \o << 0 >>

\* C2, amended: the example document is written as ident 10, 0 11 "hello world",
\* ident 8, 0 4 "name", 0 9 "Bananrama" and one End byte (33 bytes); reading these
\* bytes, followed or not by a further End byte, returns the example document.
C2_HelloBytes ==
    /\ (origin = "Blob::write" /\ blob = HelloDoc) => (wres.ok /\ buf = HelloBytes)
    /\ (rres.op = "Blob::read" /\ buf \in { HelloBytes, HelloBytes \o << 0 >> })
       => (rres.res.ok /\ rres.res.val = HelloDoc /\ rres.res.pos = Len(HelloBytes) + 1)

\* the example document was written and read back
C2_Witness ==
    BlobRoundTrip /\ blob = HelloDoc /\ buf = HelloBytes /\ rres.res.ok

----------------------------------------------------------------------------
(* C3 *)

\* some element's ident differs from the first element's
Mixed(list) == \E i \in 1..Len(list) : ident(list[i]) # ident(list[1])

\* InvalidList { found: the first ident that differs, expecting: the first ident }
MixedError(list) ==
    LET other == Min({ i \in 1..Len(list) : ident(list[i]) # ident(list[1]) })
    IN Err(InvalidList(ident(list[other]), ident(list[1])))

\* C3: writing a List of mixed idents fails with InvalidList naming the first differing
\* ident (found) and the first element's ident (expecting), and the buffer holds what
\* was written before that List and not one byte of it: written bare, nothing; after
\* an ident byte, that byte; as the one entry of a Blob, the root header and the
\* entry's ident and name; as the second inner List of a List, the outer header and
\* the first inner List.
C3_MixedListRejected ==
    /\ (origin = "Tag::write" /\ tag.tag = "List" /\ Mixed(tag.list))
       => (wres = MixedError(tag.list) /\ buf = << >>)
    /\ (origin = "ident, Tag::write" /\ tag.tag = "List" /\ Mixed(tag.list))
       => (wres = MixedError(tag.list) /\ buf = << 9 >>)
    /\ (origin = "Tag::write" /\ tag = NestedMixed)
       => /\ wres = Err(InvalidList("TAG_Short", "TAG_Byte"))
          /\ buf = << 9, 0, 0, 0, 2, 1, 0, 0, 0, 1, 1 >>
    /\ \A n \in DOMAIN blob.elements :
         ( /\ origin = "Blob::write"
           /\ DOMAIN blob.elements = { n }
           /\ blob.elements[n].tag = "List"
           /\ Mixed(blob.elements[n].list) )
         => /\ wres = MixedError(blob.elements[n].list)
            /\ buf = << 10 >> \o U16Bytes(Len(as_bytes(blob.root))) \o as_bytes(blob.root)
                     \o << 9 >> \o U16Bytes(Len(as_bytes(n))) \o as_bytes(n)

\* a List that is mixed from its third element on was refused, naming that element
C3_Witness ==
    /\ pc = "failed"
    /\ origin = "Tag::write"
    /\ tag = LateMixed
    /\ wres = Err(InvalidList("TAG_Short", "TAG_Byte"))

----------------------------------------------------------------------------
(* C4 *)

\* C4: an empty List is written as the element-type byte 0 and the length 0 0 0 0,
\* nothing else; these bytes, read as a List, give an empty List and are all consumed.
C4_EmptyList ==
    /\ (origin = "Tag::write" /\ tag = TagList(<< >>))
       => (wres.ok /\ buf = << 0, 0, 0, 0, 0 >>)
    /\ (rres.op = "Tag::read" /\ buf = << 9, 0, 0, 0, 0, 0 >>)
       => rres.res = OkAt(TagList(<< >>), 7)

\* an empty List was written after its ident byte and read back
C4_Witness ==
    /\ pc = "done"
    /\ origin = "ident, Tag::write"
    /\ tag = TagList(<< >>)
    /\ rres.op = "Tag::read"
    /\ rres.res.ok

----------------------------------------------------------------------------
(* C5 *)

\* the numbering of the format: TagTable[b + 1] is the ident numbered b
TagTable ==
    << "TAG_End", "TAG_Byte", "TAG_Short", "TAG_Int", "TAG_Long", "TAG_Float",
       "TAG_Double", "TAG_Byte_Array", "TAG_String", "TAG_List", "TAG_Compound",
       "TAG_Int_Array", "TAG_Long_Array" >>

\* C5, as stated: reading a Blob from bytes whose first byte is not 10 fails with
\* InvalidImplicit.
C5_RootNotCompound_AsStated ==
    (rres.op = "Blob::read" /\ Len(buf) >= 1 /\ buf[1] # 10)
    => (~rres.res.ok /\ rres.res.err.error = "InvalidImplicit")

\* C5, amended: reading a Blob from bytes whose first byte b is in 0..12 and is not 10
\* fails with InvalidImplicit { found: the ident numbered b }; when the first byte is
\* outside 0..12 it fails with InvalidTag { found: b } instead.
C5_RootNotCompound ==
    /\ (rres.op = "Blob::read" /\ Len(buf) >= 1 /\ buf[1] \in (0..12) \ { 10 })
       => rres.res = Err(InvalidImplicit(TagTable[buf[1] + 1]))
    /\ (rres.op = "Blob::read" /\ Len(buf) >= 1 /\ buf[1] \notin 0..12)
       => rres.res = Err(InvalidTag(buf[1]))

\* a well-formed List was refused as a document
C5_Witness ==
    /\ rres.op = "Blob::read"
    /\ buf = << 9, 0, 0, 0, 0, 0 >>
    /\ rres.res = Err(InvalidImplicit("TAG_List"))

----------------------------------------------------------------------------
(* C6 *)

\* the twelve variants of Tag
TagVariants ==
    { "Byte", "Short", "Int", "Long", "Float", "Double", "ByteArray", "String",
      "List", "Compound", "IntArray", "LongArray" }

\* every node of the tree is one of the twelve variants
RECURSIVE NoEnd(_)
NoEnd(t) ==
    /\ t.tag \in TagVariants
    /\ t.tag = "List" => \A i \in 1..Len(t.list) : NoEnd(t.list[i])
    /\ t.tag = "Compound" => \A n \in DOMAIN t.compound : NoEnd(t.compound[n])

----------------------------------------------------------------------------
(* C7 *)

\* C7: a byte b outside 0..12 where an ident is read makes the read fail with
\* InvalidTag { found: b }: as the first byte of a Tag or of a Blob, as the element
\* type of a List, as the ident of a Compound's entry, read on their own or inside a
\* document; and an InvalidTag error always names a byte of the input outside 0..12.
C7_InvalidTag ==
    /\ (rres.op # "none" /\ Len(buf) >= 1 /\ buf[1] \notin 0..12)
       => rres.res = Err(InvalidTag(buf[1]))
    /\ (rres.op = "Tag::read" /\ Len(buf) >= 2 /\ buf[1] \in { 9, 10 } /\ buf[2] \notin 0..12)
       => rres.res = Err(InvalidTag(buf[2]))
    /\ ( /\ rres.op = "Blob::read" /\ Len(buf) >= 4
         /\ SubSeq(buf, 1, 3) = << 10, 0, 0 >> /\ buf[4] \notin 0..12 )
       => rres.res = Err(InvalidTag(buf[4]))
    /\ ( /\ rres.op = "Blob::read" /\ Len(buf) >= 7
         /\ SubSeq(buf, 1, 6) = << 10, 0, 0, 9, 0, 0 >> /\ buf[7] \notin 0..12 )
       => rres.res = Err(InvalidTag(buf[7]))
    /\ (rres.op # "none" /\ ~rres.res.ok /\ rres.res.err.error = "InvalidTag")
       => /\ rres.res.err.found_u8 \notin 0..12
          /\ \E i \in 1..Len(buf) : buf[i] = rres.res.err.found_u8

\* byte 13 as the element type of a document's List was refused
C7_Witness ==
    /\ rres.op = "Blob::read"
    /\ buf = << 10, 0, 0, 9, 0, 0, 13 >>
    /\ rres.res = Err(InvalidTag(13))

----------------------------------------------------------------------------
(* C8 *)

\* the number the format gives to a Tag's variant
VariantNumber(t) ==
    CASE t.tag = "Byte" -> 1 [] t.tag = "Short" -> 2 [] t.tag = "Int" -> 3
      [] t.tag = "Long" -> 4 [] t.tag = "Float" -> 5 [] t.tag = "Double" -> 6
      [] t.tag = "ByteArray" -> 7 [] t.tag = "String" -> 8 [] t.tag = "List" -> 9
      [] t.tag = "Compound" -> 10 [] t.tag = "IntArray" -> 11 [] t.tag = "LongArray" -> 12

\* C8: parse(b) is defined exactly for b in 0..12 and gives the ident the table numbers
\* b; `as u8` of an ident is its number in the table, so parse and `as u8` are inverse;
\* Tag::ident of every value is the ident of its variant, never End; a Tag read back
\* has the variant numbered by the ident byte before it; and the ident byte written
\* for the one entry of a Blob is the number of the entry's variant.
C8_Numbering ==
    /\ \A b \in 0..255 : parse(b).some <=> b \in 0..12
    /\ \A b \in 0..12 : parse(b).val = TagTable[b + 1] /\ IdentAsU8(parse(b).val) = b
    /\ \A i \in TagIdents : parse(IdentAsU8(i)) = [some |-> TRUE, val |-> i]
    /\ tag # NoTag
       => /\ ident(tag) = TagTable[VariantNumber(tag) + 1]
          /\ ident(tag) # "TAG_End"
          /\ origin = "ident, Tag::write" => buf[1] = VariantNumber(tag)
    /\ (rres.op = "Tag::read" /\ rres.res.ok) => VariantNumber(rres.res.val) = buf[1]
    /\ \A n \in DOMAIN blob.elements :
         (origin = "Blob::write" /\ DOMAIN blob.elements = { n } /\ wres.ok)
         => buf[Len(as_bytes(blob.root)) + 4] = VariantNumber(blob.elements[n])

\* a Blob whose one entry is a LongArray was written, with ident byte 12
C8_Witness ==
    /\ origin = "Blob::write" /\ wres.ok
    /\ DOMAIN blob.elements = { name_str }
    /\ blob.elements[name_str].tag = "LongArray"
    /\ buf[Len(as_bytes(blob.root)) + 4] = 12

----------------------------------------------------------------------------
(* C9 *)

\* the string holds a char outside the basic multilingual plane
HasSupplementary(s) == \E i \in 1..Len(s) : s[i] >= 65536

\* C9: a string that holds a char outside the basic multilingual plane comes back
\* char for char: as a String written after its ident byte and read back as a Tag,
\* and as the root name, a field name or a String payload of a Blob written and read.
C9_SupplementaryString ==
    /\ ( /\ pc = "done" /\ origin = "ident, Tag::write" /\ rres.op = "Tag::read"
         /\ tag.tag = "String" /\ HasSupplementary(tag.string) )
       => /\ rres.res.ok
          /\ rres.res.val.tag = "String"
          /\ rres.res.val.string = tag.string
    /\ (BlobRoundTrip /\ HasSupplementary(blob.root))
       => (rres.res.ok /\ rres.res.val.root = blob.root)
    /\ \A n \in DOMAIN blob.elements :
         (BlobRoundTrip /\ HasSupplementary(n))
         => (rres.res.ok /\ n \in DOMAIN rres.res.val.elements)
    /\ \A n \in DOMAIN blob.elements :
         ( /\ BlobRoundTrip
           /\ blob.elements[n].tag = "String"
           /\ HasSupplementary(blob.elements[n].string) )
         => /\ rres.res.ok
            /\ n \in DOMAIN rres.res.val.elements
            /\ rres.res.val.elements[n].tag = "String"
            /\ rres.res.val.elements[n].string = blob.elements[n].string

\* U+1F600 came back as root name, as field name and inside a String payload
C9_Witness ==
    /\ BlobRoundTrip
    /\ HasSupplementary(blob.root)
    /\ grin \in DOMAIN blob.elements
    /\ blob.elements[grin] = TagString(<< 0, 8364 >> \o grin)
    /\ rres.res.ok
    /\ rres.res.val.root = blob.root
    /\ rres.res.val.elements[grin].string = << 0, 8364, 128512 >>

----------------------------------------------------------------------------
(* C10 *)

\* modified UTF-8 (Java's CESU-8) of one char: NUL is C0 80, a char outside the basic
\* multilingual plane is its two surrogates, three bytes each
JavaCesu8Char(c) ==
    IF c = 0 THEN << 192, 128 >>
    ELSE IF c < 65536 THEN Utf8Char(c)
    ELSE Utf8Char(55296 + ((c - 65536) \div 1024)) \o Utf8Char(56320 + ((c - 65536) % 1024))

\* modified UTF-8 of a string
RECURSIVE JavaCesu8(_)
JavaCesu8(s) == IF Len(s) = 0 THEN << >> ELSE JavaCesu8Char(s[1]) \o JavaCesu8(Tail(s))

\* C10: the bytes written for a string are a 16-bit count of the bytes of its modified
\* UTF-8 encoding followed by that encoding: for a String written bare, and for the
\* root name of a Blob without entries.
C10_ModifiedUtf8 ==
    /\ (origin = "Tag::write" /\ tag.tag = "String")
       => buf = U16Bytes(Len(JavaCesu8(tag.string))) \o JavaCesu8(tag.string)
    /\ (origin = "Blob::write" /\ blob.elements = EmptyMap)
       => buf = << 10 >> \o U16Bytes(Len(JavaCesu8(blob.root))) \o JavaCesu8(blob.root)
                \o << 0 >>

----------------------------------------------------------------------------
(* Vocabulary of the bridge's properties.                                  *)

\* encode_tag was called on a value and decode_tag asked the value's type back
BridgeRoundTrip == host # NoValue /\ request # NoType /\ request = HostType(host)

\* a type was asked of a deserializer the program built itself
Asked == host = NoValue /\ request # NoType

----------------------------------------------------------------------------
(* C11 *)

\* the tag a String, a signed integer or a sequence of signed integers is to give
RECURSIVE PlainTag(_)
PlainTag(v) ==
    CASE v.kind = "str" -> TagString(v.text)
      [] v.kind = "i8" -> TagByte(v.num)
      [] v.kind = "i16" -> TagShort(v.num)
      [] v.kind = "i32" -> TagInt(v.num)
      [] v.kind = "i64" -> TagLong(v.wide)
      [] v.kind = "seq" -> TagList([i \in 1..Len(v.items) |-> PlainTag(v.items[i])])

\* C11: a struct with a String field, a signed integer field and a field that is a
\* sequence of signed integers serializes to a Compound with one entry for each field
\* and no other, under the field's name: the String as a String, the integer as the
\* tag of its width, the sequence as the List of its elements' tags in order (the
\* Example of the tests gives foo: String("Hello World!"), bar: Byte(42),
\* baz: List([Int(420), Int(69), Int(666)])); and asking for the struct's type on
\* that Compound gives back the struct.
C11_StructRoundTrip ==
    /\ host = Example(HelloWorld, 42, << HI32(420), HI32(69), HI32(666) >>)
       => ser = Ok(Some(TagCompound(
                    foo :> TagString(HelloWorld) @@ bar :> TagByte(42)
                    @@ baz :> TagList(<< TagInt(420), TagInt(69), TagInt(666) >>))))
    /\ (host.kind = "struct" /\ HostType(host) \in { ExampleType, WideType })
       => /\ ser.ok /\ ser.val.some /\ ser.val.val.tag = "Compound"
          /\ DOMAIN ser.val.val.compound = { foo, bar, baz }
          /\ \A i \in 1..Len(host.fields) :
                ser.val.val.compound[host.fields[i].name] = PlainTag(host.fields[i].value)
    /\ (BridgeRoundTrip /\ host.kind = "struct" /\ request \in { ExampleType, WideType })
       => (de.ok /\ de.val = host)

\* the Example of the tests went through encode_tag and decode_tag
C11_Witness ==
    /\ host = Example(HelloWorld, 42, << HI32(420), HI32(69), HI32(666) >>)
    /\ request = ExampleType
    /\ de = Ok(host)

----------------------------------------------------------------------------
(* C12 *)

----------------------------------------------------------------------------
(* C13 *)

\* C13: a unit variant goes through the bridge and comes back: the tag the serializer
\* gives for it, String(variant name), is accepted when the enum's type is asked on
\* it, and the result is the same variant.
C13_UnitVariantRoundTrip ==
    /\ host.kind = "unit_variant" => ser = Ok(Some(TagString(host.variant)))
    /\ (BridgeRoundTrip /\ host.kind = "unit_variant") => de = Ok(host)

\* what the code does with a unit variant: the String it is serialized to is refused
\* by the enum request, which takes nothing but a Compound
C13_UnitVariantRefused ==
    (BridgeRoundTrip /\ host.kind = "unit_variant")
    => de = Err(InvalidType("TAG_String", "TAG_Compound", "enum map"))

\* Action::Stop went through encode_tag and its String through decode_tag
C13_Witness ==
    /\ host = HUnitVariant(Stop)
    /\ request = ActionType
    /\ given = Some(TagString(Stop))
    /\ ~de.ok

----------------------------------------------------------------------------
(* C14 *)

\* the enum's type was asked of the tag `given` holds
EnumAsked == request # NoType /\ request.ty = "enum"

\* the request ended in an error value (not in a variant, not in a panic)
Rejected == ~de.ok /\ de # Panic

\* C14: an enum request selects a variant only when the tag is a Compound with exactly
\* one entry, whose key names the variant and whose value is the payload; an absent
\* value, a tag that is not a Compound, an empty Compound and a Compound with two or
\* more entries are each rejected with an error and select no variant.
C14_EnumSingleEntry ==
    EnumAsked =>
        /\ de.ok => /\ given.some /\ given.val.tag = "Compound"
                    /\ DOMAIN given.val.compound = { de.val.variant }
        /\ ~given.some => Rejected
        /\ (given.some /\ given.val.tag # "Compound") => Rejected
        /\ (given.some /\ given.val.tag = "Compound"
            /\ Cardinality(DOMAIN given.val.compound) # 1) => Rejected

\* what the code does: an absent value, a tag that is not a Compound and an empty
\* Compound are refused, and of a Compound with entries one entry, whichever the
\* HashMap gives first, selects the variant, the others being dropped
C14_EnumFirstEntry ==
    EnumAsked =>
        /\ ~given.some => de = Err(NoData("enum map"))
        /\ (given.some /\ given.val.tag # "Compound")
           => de = Err(InvalidType(ident(given.val), "TAG_Compound", "enum map"))
        /\ (given.some /\ given.val.tag = "Compound" /\ DOMAIN given.val.compound = {})
           => de = Err(InvalidType("TAG_End", "TAG_Compound", "enum map"))
        /\ (given.some /\ given.val.tag = "Compound" /\ DOMAIN given.val.compound # {})
           => \E key \in DOMAIN given.val.compound :
                 de \in variant_access(request.variants, key, given.val.compound[key])

\* a Compound of two entries selected a variant
C14_Witness ==
    /\ EnumAsked
    /\ given.some /\ given.val.tag = "Compound"
    /\ Cardinality(DOMAIN given.val.compound) = 2
    /\ de.ok

----------------------------------------------------------------------------
(* C15 *)

\* C15 as stated: serializing a newtype variant gives the tag that serializing its
\* payload gives.
C15_NewtypeVariant_AsStated ==
    host.kind = "newtype_variant" => ser = serialize(host.inner)

\* C15: serializing a newtype variant V(p) gives a Compound of one entry, whose key
\* is the variant's name and whose value is the tag p serializes to; when p
\* serializes to no tag (None, a unit) the variant serializes to no tag either, and
\* an error of p is the variant's error.
C15_NewtypeVariant ==
    /\ host = HNewtypeVariant(Go, HI8(3)) => ser = Ok(Some(TagCompound(Go :> TagByte(3))))
    /\ host = HNewtypeVariant(Go, HSome(HI8(9)))
       => ser = Ok(Some(TagCompound(Go :> TagByte(9))))
    /\ host = HNewtypeVariant(Go, HNone) => ser = Ok(None)
    /\ host.kind = "newtype_variant"
       => LET r == serialize(host.inner)
          IN ser = IF ~r.ok THEN r
                   ELSE IF r.val.some
                   THEN Ok(Some(TagCompound(host.variant :> r.val.val)))
                   ELSE Ok(None)

\* Action::Go(3) was serialized to the Compound {"Go": Byte(3)}
C15_Witness ==
    /\ host = HNewtypeVariant(Go, HI8(3))
    /\ ser = Ok(Some(TagCompound(Go :> TagByte(3))))

----------------------------------------------------------------------------
(* C16 *)

\* a sequence type was asked of a ByteArray, an IntArray or a LongArray
SeqAskedOfArray ==
    /\ request # NoType /\ request.ty = "seq"
    /\ given.some /\ given.val.tag \in { "ByteArray", "IntArray", "LongArray" }

\* C16: a sequence request on a ByteArray, an IntArray or a LongArray does what it
\* does on a List: it walks the array's elements in order as Byte, Int or Long
\* values, so its result is the result of the same request on the List of them.
C16_ArrayAsSeq ==
    SeqAskedOfArray => de \in deserialize(request, Some(TagList(Boxed(given.val))))

\* what the code does: deserialize_seq refuses an array as it refuses any tag that
\* is no List; only deserialize_any walks an array's elements
C16_ArrayRefused ==
    /\ SeqAskedOfArray => de = Err(InvalidType(ident(given.val), "TAG_List", "seq"))
    /\ (request = TAny /\ given.some /\ given.val.tag = "ByteArray")
       => de = Ok(HSeq([i \in 1..Len(given.val.bytes) |-> HI8(given.val.bytes[i])]))
    /\ (request = TAny /\ given.some /\ given.val.tag = "IntArray")
       => de = Ok(HSeq([i \in 1..Len(given.val.ints) |-> HI32(given.val.ints[i])]))
    /\ (request = TAny /\ given.some /\ given.val.tag = "LongArray")
       => de = Ok(HSeq([i \in 1..Len(given.val.longs) |-> HI64(given.val.longs[i])]))

\* Vec<i8> was asked of a ByteArray of two bytes and refused
C16_Witness ==
    /\ request = TSeq(TI8)
    /\ given = Some(TagByteArray(<< -1, 2 >>))
    /\ ~de.ok

----------------------------------------------------------------------------
(* C17 *)

\* a char was asked of a String
CharAskedOfString ==
    request = TChar /\ given.some /\ given.val.tag = "String"

\* C17: a char request on String(s) gives the character c exactly when s is the one
\* character c, the length being counted in characters whatever the code point, and
\* fails with InvalidChar for every other length; so every char the bridge
\* serializes comes back as itself.
C17_CharRequest ==
    /\ (CharAskedOfString /\ Len(given.val.string) = 1)
       => de = Ok(HChar(given.val.string[1]))
    /\ (CharAskedOfString /\ Len(given.val.string) # 1) => de = Err(InvalidChar)
    /\ (BridgeRoundTrip /\ host.kind = "char") => de = Ok(host)

\* what the code does: the length it compares with 1 is the length of the string's
\* UTF-8 bytes, so the one character must be below U+0080
C17_CharByBytes ==
    /\ (CharAskedOfString /\ Len(given.val.string) = 1 /\ given.val.string[1] < 128)
       => de = Ok(HChar(given.val.string[1]))
    /\ (CharAskedOfString
        /\ ~(Len(given.val.string) = 1 /\ given.val.string[1] < 128))
       => de = Err(InvalidChar)

\* the char U+00E9 was serialized to a String of one character and refused
C17_Witness ==
    /\ host = HChar(233)
    /\ request = TChar
    /\ given = Some(TagString(<< 233 >>))
    /\ de = Err(InvalidChar)

----------------------------------------------------------------------------
(* C18 *)

\* the requests C18 is about, each under the name of its shape
TypedRequests ==
    { "i8", "i16", "i32", "i64", "f32", "f64", "bool", "char", "str", "string",
      "seq", "tuple", "map", "struct" }

\* the Tag variant a typed request takes
RequiredVariant(ty) ==
    CASE ty \in { "i8", "bool" } -> "Byte"
      [] ty = "i16" -> "Short"
      [] ty = "i32" -> "Int"
      [] ty = "i64" -> "Long"
      [] ty = "f32" -> "Float"
      [] ty = "f64" -> "Double"
      [] ty \in { "char", "str", "string" } -> "String"
      [] ty \in { "seq", "tuple" } -> "List"
      [] ty \in { "map", "struct" } -> "Compound"

\* the ident of that variant
RequiredIdent(ty) ==
    CASE ty \in { "i8", "bool" } -> "TAG_Byte"
      [] ty = "i16" -> "TAG_Short"
      [] ty = "i32" -> "TAG_Int"
      [] ty = "i64" -> "TAG_Long"
      [] ty = "f32" -> "TAG_Float"
      [] ty = "f64" -> "TAG_Double"
      [] ty \in { "char", "str", "string" } -> "TAG_String"
      [] ty \in { "seq", "tuple" } -> "TAG_List"
      [] ty \in { "map", "struct" } -> "TAG_Compound"

\* a typed request was made that the build does not refuse outright
TypedAsked ==
    /\ request # NoType /\ request.ty \in TypedRequests
    /\ request.ty = "bool" => "serde_boolean" \in features

\* C18: for each typed request (i8, i16, i32, i64, f32, f64, bool, char, str, string,
\* seq, tuple, map, struct), a tag of another variant fails with InvalidType whose
\* found is the tag's ident, whose expecting is the ident the request takes and
\* whose when is the name of the requested shape; an absent value fails with NoData
\* whose when is the name of the requested shape.
C18_TypedRequestErrors ==
    TypedAsked =>
        /\ ~given.some => de = Err(NoData(request.ty))
        /\ (given.some /\ given.val.tag # RequiredVariant(request.ty))
           => de = Err(InvalidType(ident(given.val), RequiredIdent(request.ty),
                                   request.ty))

\* the names the code gives in `when`: "char" for a str and a string, and for an
\* absent bool; "tag" for an absent map
NoDataWhen(ty) ==
    CASE ty \in { "bool", "str", "string" } -> "char"
      [] ty = "map" -> "tag"
      [] OTHER -> ty

InvalidTypeWhen(ty) == IF ty \in { "str", "string" } THEN "char" ELSE ty

\* what the code does: found and expecting are as stated, `when` is the code's name
C18_TypedRequestErrorsOfCode ==
    TypedAsked =>
        /\ ~given.some => de = Err(NoData(NoDataWhen(request.ty)))
        /\ (given.some /\ given.val.tag # RequiredVariant(request.ty))
           => de = Err(InvalidType(ident(given.val), RequiredIdent(request.ty),
                                   InvalidTypeWhen(request.ty)))

\* a String was asked of a Byte and the error names a char
C18_Witness ==
    /\ request = TString
    /\ given = Some(TagByte(1))
    /\ de = Err(InvalidType("TAG_Byte", "TAG_String", "char"))

----------------------------------------------------------------------------
(* C19 *)

\* the host types behind an option, and the option each is behind
Gated == { "bool", "u8", "u16", "u32", "u64" }

OptionOf(kind) == IF kind = "bool" THEN "serde_boolean" ELSE "serde_unsigned"

\* the deserializer refused the requested type itself
Unserializable(r) == ~r.ok /\ r.err.error = "UnserializableType"

\* C19: under each setting of the bool-as-byte and unsigned-as-signed options the
\* serializer accepts a bool (a u8, u16, u32, u64) exactly when the deserializer
\* accepts the request for it. With the option on, a bool is stored as Byte 0 or 1
\* and an unsigned value as the signed value of the same width with the same bits,
\* and deserialize(serialize(v)) = v; with the option off both directions fail with
\* UnserializableType.
C19_OptionSymmetry ==
    /\ host.kind \in Gated => (ser.ok <=> OptionOf(host.kind) \in features)
    /\ (request # NoType /\ request.ty \in Gated)
       => (~Unserializable(de) <=> OptionOf(request.ty) \in features)
    /\ (host.kind \in Gated /\ OptionOf(host.kind) \notin features)
       => Unserializable(ser)
    /\ (request # NoType /\ request.ty \in Gated /\ OptionOf(request.ty) \notin features)
       => Unserializable(de)
    /\ (host.kind = "bool" /\ "serde_boolean" \in features)
       => ser = Ok(Some(TagByte(IF host.flag THEN 1 ELSE 0)))
    /\ (host.kind = "u8" /\ "serde_unsigned" \in features)
       => /\ ser.ok /\ ser.val.some /\ ser.val.val.tag = "Byte"
          /\ ser.val.val.byte \in -128..127
          /\ (ser.val.val.byte - host.num) % 256 = 0
          /\ \A v \in 0..255 : I8AsU8(U8AsI8(v)) = v
    /\ (host.kind = "u16" /\ "serde_unsigned" \in features)
       => /\ ser.ok /\ ser.val.some /\ ser.val.val.tag = "Short"
          /\ ser.val.val.short \in -32768..32767
          /\ (ser.val.val.short - host.num) % 65536 = 0
    /\ (host = HU16(65535) /\ "serde_unsigned" \in features)
       => \A v \in 0..65535 : I16AsU16(U16AsI16(v)) = v
    /\ (host = HU8(200) /\ "serde_unsigned" \in features) => ser = Ok(Some(TagByte(-56)))
    /\ (host = HU32(<< 1, 2 >>) /\ "serde_unsigned" \in features)
       => ser = Ok(Some(TagInt(65538)))
    /\ (host = HU32(<< 65535, 65534 >>) /\ "serde_unsigned" \in features)
       => ser = Ok(Some(TagInt(-2)))
    /\ (host = HU64([hi |-> << 0, 3 >>, lo |-> << 4, 5 >>]) /\ "serde_unsigned" \in features)
       => ser = Ok(Some(TagLong([hi |-> 3, lo |-> << 4, 5 >>])))
    /\ (host = HU64([hi |-> << 32768, 0 >>, lo |-> << 0, 1 >>])
        /\ "serde_unsigned" \in features)
       => ser = Ok(Some(TagLong([hi |-> -2147483647 - 1, lo |-> << 0, 1 >>])))
    /\ (BridgeRoundTrip /\ host.kind \in Gated /\ OptionOf(host.kind) \in features)
       => de = Ok(host)

\* with the unsigned option on, the u8 200 went out as Byte(-56) and came back
C19_Witness ==
    /\ "serde_unsigned" \in features
    /\ host = HU8(200)
    /\ ser = Ok(Some(TagByte(-56)))
    /\ request = TU8
    /\ de = Ok(host)

----------------------------------------------------------------------------
(* C20 *)

\* the serializer was given a value of a type the build rejects
SerRejects ==
    \/ host.kind \in Gated /\ OptionOf(host.kind) \notin features
    \/ host.kind = "bytes"

\* the deserializer was asked a type the build rejects
DeRejects ==
    /\ request # NoType
    /\ \/ request.ty \in Gated /\ OptionOf(request.ty) \notin features
       \/ request.ty \in { "bytes", "byte_buf" }

\* C20: whenever the bridge rejects a host type (bool, u8, u16, u32 or u64 with its
\* option off; raw bytes always; in the serializer and in the deserializer) the
\* error is UnserializableType and its type_name is the rejected type's name:
\* "bool", "u8", "u16", "u32", "u64" or "bytes".
C20_RejectedTypeName ==
    /\ SerRejects => ser = Err(UnserializableType(host.kind))
    /\ DeRejects
       => de = Err(UnserializableType(IF request.ty = "byte_buf" THEN "bytes"
                                      ELSE request.ty))

\* what the code does: the serializer names a rejected u64 "i64"; every other name
\* is the type's
C20_RejectedTypeNameOfCode ==
    /\ SerRejects
       => ser = Err(UnserializableType(IF host.kind = "u64" THEN "i64" ELSE host.kind))
    /\ DeRejects
       => de = Err(UnserializableType(IF request.ty = "byte_buf" THEN "bytes"
                                      ELSE request.ty))

\* a u64 was refused by the serializer under the name of i64
C20_Witness ==
    /\ "serde_unsigned" \notin features
    /\ host.kind = "u64"
    /\ ser = Err(UnserializableType("i64"))

----------------------------------------------------------------------------
(* C21 *)

\* a sequence, a tuple or a tuple struct whose elements all serialize without error
ElementsGiven ==
    /\ host.kind \in { "seq", "tuple", "tuple_struct" }
    /\ \A i \in 1..Len(host.items) : serialize(host.items[i]).ok

\* C21: serializing a sequence, a tuple or a tuple struct of n elements gives a List
\* of exactly n tags, the i-th being the tag that serializing the i-th element gives,
\* in the original order.
C21_SeqToList ==
    ElementsGiven =>
        /\ ser.ok /\ ser.val.some /\ ser.val.val.tag = "List"
        /\ Len(ser.val.val.list) = Len(host.items)
        /\ \A i \in 1..Len(host.items) :
              serialize(host.items[i]) = Ok(Some(ser.val.val.list[i]))

\* the elements that serialize to a tag, in order
RECURSIVE Tagged(_)
Tagged(items) ==
    IF Len(items) = 0 THEN << >>
    ELSE LET r == serialize(Head(items))
         IN (IF r.val.some THEN << r.val.val >> ELSE << >>) \o Tagged(Tail(items))

\* what the code does: an element that serializes to no tag (an absent Option, a
\* unit) leaves nothing in the List, which then is shorter than the sequence
C21_SeqToListOfCode ==
    ElementsGiven => ser = Ok(Some(TagList(Tagged(host.items))))

\* a sequence of three Options, the second absent, was serialized to a List of two
C21_Witness ==
    /\ host = HSeq(<< HSome(HI8(1)), HNone, HSome(HI8(3)) >>)
    /\ ser = Ok(Some(TagList(<< TagByte(1), TagByte(3) >>)))

----------------------------------------------------------------------------
(* Strings at the limit of the 16-bit length prefix: a program writes a    *)
(* Tag::String whose UTF-8 length is about 65535 bytes, bare or after its  *)
(* ident byte, or writes a Blob whose root name is such a string.          *)

\* how far past 65535 bytes the long strings go
MaxOver == 6

\* the string of n chars c
Repeat(c, n) == [i \in 1..n |-> c]

\* strings of 'a' (1 byte each), of U+00E9 (2 bytes each) and of U+20AC (3 bytes
\* each) whose UTF-8 lengths lie on both sides of 65535
LongStrings ==
    { Repeat(97, U16Max + d) : d \in (0 - MaxOver)..MaxOver }
    \cup { Repeat(233, 32765 + d) : d \in 0..MaxOver }
    \cup { Repeat(8364, 21843 + d) : d \in 0..MaxOver }

LongNext ==
    \/ \E root \in LongStrings : Create(root)
    \/ BlobWrite
    \/ \E s \in LongStrings, framed \in BOOLEAN : TagWrite(TagString(s), framed)

LongSpec == Init /\ [][LongNext]_vars

----------------------------------------------------------------------------
(* C22 *)

\* a bare Tag::String was written; a Blob without entries was written
StringWritten == origin = "Tag::write" /\ tag.tag = "String"
RootWritten == origin = "Blob::write" /\ DOMAIN blob.elements = {}

\* the number the 16-bit big-endian prefix at position i denotes
Prefix(b, i) == (b[i] * 256) + b[i + 1]

\* C22: encoding a string whose encoded length L exceeds 65535 bytes does not fail;
\* the 16-bit length prefix written is L mod 65536 and all L bytes are written after
\* it, so that the prefix is not the number of string bytes that follow it; the
\* string being a String tag's payload or a document's root name.
C22_LengthTruncated ==
    /\ StringWritten =>
        LET bytes == as_bytes(tag.string)
            L == Len(bytes)
        IN /\ wres.ok
           /\ Len(buf) = 2 + L
           /\ Prefix(buf, 1) = L % 65536
           /\ SubSeq(buf, 3, Len(buf)) = bytes
           /\ L > U16Max => Prefix(buf, 1) # Len(buf) - 2
           /\ L <= U16Max => Prefix(buf, 1) = Len(buf) - 2
    /\ RootWritten =>
        LET bytes == as_bytes(blob.root)
            L == Len(bytes)
        IN /\ wres.ok
           /\ Len(buf) = 4 + L
           /\ Prefix(buf, 2) = L % 65536
           /\ SubSeq(buf, 4, Len(buf) - 1) = bytes
           /\ L > U16Max => Prefix(buf, 2) # Len(buf) - 4

\* a string of 65537 bytes was written with the prefix 00 01
C22_Witness ==
    /\ StringWritten
    /\ tag.string = Repeat(97, 65537)
    /\ wres.ok
    /\ Len(buf) = 65539
    /\ buf[1] = 0 /\ buf[2] = 1

----------------------------------------------------------------------------
(* C23 *)

\* the names of the entries es
NamesOf(es) == { es[i].name : i \in 1..Len(es) }

\* the last position of the name n among the entries es
LastOf(es, n) == CHOOSE i \in 1..Len(es) :
                    /\ es[i].name = n
                    /\ \A j \in (i + 1)..Len(es) : es[j].name # n

\* some name occurs more than once among the entries es
Repeats(es) == Cardinality(NamesOf(es)) < Len(es)

\* C23: when a compound body on the wire holds the same field name more than once,
\* decoding succeeds and the Compound read holds, for that name, the payload of the
\* last occurrence in stream order; it has as many entries as there are distinct
\* names.
C23_LastWriteWins ==
    (origin = "from_bytes" /\ rres.op = "Blob::read" /\ buf \in DuplicateStreams)
    => \A es \in WireBodies :
          buf = << 10, 0, 0 >> \o Body(es)
          => /\ rres.res.ok
             /\ rres.res.val.root = << >>
             /\ DOMAIN rres.res.val.elements = NamesOf(es)
             /\ Cardinality(DOMAIN rres.res.val.elements) = Cardinality(NamesOf(es))
             /\ \A n \in NamesOf(es) :
                   rres.res.val.elements[n] = es[LastOf(es, n)].payload

\* a body with "a" as Byte(1), then "b", then "a" as Short(258) was read: "a" is the Short
C23_Witness ==
    /\ origin = "from_bytes" /\ rres.op = "Blob::read"
    /\ buf = << 10, 0, 0, 1, 0, 1, 97, 1, 1, 0, 1, 98, 1, 2, 0, 1, 97, 1, 2, 0 >>
    /\ rres.res.ok
    /\ rres.res.val.elements = (<< 97 >> :> TagShort(258) @@ << 98 >> :> TagByte(1))

----------------------------------------------------------------------------
(* C24 *)

\* the program drives a sequence cursor
SeqDriven == cursor = "seq"

\* after k calls on n stored elements the cursor holds the elements from the
\* (k+1)-th on; the i-th call was given the i-th stored element, and past the n-th
\* it reported exhaustion
SeqCursorState ==
    SeqDriven =>
        LET n == Len(stored)
            k == Len(calls)
        IN /\ seq_access.data = SubSeq(stored, Min({ k, n }) + 1, n)
           /\ \A i \in 1..k :
                 IF i <= n
                 THEN calls[i].res \in { Yield(r) : r \in deserialize(calls[i].seed,
                                                                     Some(stored[i])) }
                 ELSE calls[i].res = Ok(None)

\* a call leaves the cursor with one element less when it had one, and with none
\* when it had none; nothing puts an element back
SeqCursorStep ==
    (SeqDriven /\ calls' # calls) =>
        /\ stored' = stored
        /\ Len(seq_access'.data) <= Len(seq_access.data)
        /\ Len(seq_access.data) > 0 => seq_access'.data = Tail(seq_access.data)
        /\ Len(seq_access.data) = 0 => seq_access'.data = << >>

\* C24: over any sequence of next-element calls on a sequence cursor built on a List
\* of n elements, the k-th call (k <= n) yields the k-th stored element, the number
\* of elements left never grows and drops by exactly one with each element yielded,
\* and every call after the n-th reports exhaustion; the cursor is never reset and
\* does not look at whether the elements are of one type.
C24_SeqCursor == [] SeqCursorState /\ [][SeqCursorStep]_vars

\* a cursor on a Byte and a Short gave the Byte, the Short, and then exhaustion
C24_Witness ==
    /\ SeqDriven
    /\ stored = << TagByte(1), TagShort(258) >>
    /\ Len(calls) = 3
    /\ calls[1].res = Ok(Some(HI8(1)))
    /\ calls[2].res = Ok(Some(HI16(258)))
    /\ calls[3].res = Ok(None)
    /\ seq_access.data = << >>

----------------------------------------------------------------------------
(* C25 *)

\* the program drives a map cursor
MapDriven == cursor = "map"

\* the number of next_key calls among the first i calls
KeyCalls(i) == Cardinality({ j \in 1..i : calls[j].op = "next_key" })

\* the j-th call is a next_key call that found an entry left
Yielding(j) == calls[j].op = "next_key" /\ KeyCalls(j) <= Len(stored)

\* the value that waits when the i-th call is made: that of the key yielded last, if
\* a key was yielded and no next_value call came after it
PendingAt(i) ==
    IF \E j \in 1..(i - 1) :
          /\ Yielding(j)
          /\ \A m \in (j + 1)..(i - 1) : ~Yielding(m) /\ calls[m].op # "next_value"
    THEN Some(stored[Min({ KeyCalls(i - 1), Len(stored) })].payload)
    ELSE None

\* C25: over any interleaving of next-key and next-value calls on a map cursor built
\* on a Compound, each entry's key is yielded exactly once before exhaustion; the
\* value next-value hands out is that of the key yielded last and is handed out at
\* most once, a next-value call with no value waiting seeing an absent value; and
\* once every key was yielded next-key reports exhaustion on each later call.
C25_MapCursor ==
    MapDriven =>
        LET n == Len(stored)
            k == Len(calls)
        IN /\ map_access.data = SubSeq(stored, Min({ KeyCalls(k), n }) + 1, n)
           /\ map_access.value = PendingAt(k + 1)
           /\ \A i \in 1..k :
                 CASE calls[i].op = "next_key" /\ KeyCalls(i) <= n ->
                        calls[i].res \in
                            { Yield(r) : r \in deserialize(calls[i].seed,
                                            Some(TagString(stored[KeyCalls(i)].name))) }
                   [] calls[i].op = "next_key" /\ KeyCalls(i) > n ->
                        calls[i].res = Ok(None)
                   [] calls[i].op = "next_value" ->
                        calls[i].res \in deserialize(calls[i].seed, PendingAt(i))

\* on the Compound {"a": Byte(1)}: the key, its value, no second value, no second key
C25_Witness ==
    /\ MapDriven
    /\ stored = << [name |-> << 97 >>, payload |-> TagByte(1)] >>
    /\ Len(calls) = 4
    /\ calls[1] = Call("next_key", TString, Ok(Some(HStr(<< 97 >>))))
    /\ calls[2] = Call("next_value", TI8, Ok(HI8(1)))
    /\ calls[3] = Call("next_value", TI8, Err(NoData("i8")))
    /\ calls[4] = Call("next_key", TString, Ok(None))

----------------------------------------------------------------------------
(* C26 *)

\* the entries of a map whose key is a string
StringKeyed(entries) == { i \in 1..Len(entries) : entries[i].key.kind = "str" }

\* the last entry under the string key n
LastUnder(entries, n) ==
    CHOOSE i \in StringKeyed(entries) :
        /\ entries[i].key.text = n
        /\ \A j \in StringKeyed(entries) : entries[j].key.text = n => j <= i

----------------------------------------------------------------------------
(* C27 *)

\* C27: every request made of the deserializer and of its cursors, the request to
\* skip a value of any type included (ignored-any, which a struct's visitor makes for
\* a Compound entry the struct does not declare), ends by returning a value or an
\* NBTError to its caller; none aborts the program.
C27_NoAbort ==
    request # NoType => de # Panic

\* what the code does: a request ends in a panic exactly when a struct's visitor
\* meets an entry the struct does not declare
Undeclared(t, data) ==
    /\ t.ty = "struct"
    /\ data.tag = "Compound"
    /\ \E n \in DOMAIN data.compound : Declared(t.decl, n) = 0

C27_AbortOnUndeclared ==
    (request # NoType /\ de = Panic)
    => (given.some /\ Undeclared(request, given.val))

\* the struct { foo: String, bar: Option<i8> } was asked of a Compound that also
\* holds "baz", and the program was aborted
C27_Witness ==
    /\ request # NoType /\ request.ty = "struct"
    /\ given = Some(TagCompound(foo :> TagString(foo) @@ baz :> TagByte(1)))
    /\ de = Panic

----------------------------------------------------------------------------
(* C28 *)

\* the errors the decoder returns
DecodeErrors ==
    { IOError, StringError, UnexpectedEndTag }
    \cup { InvalidTag(b) : b \in 0..255 } \cup { InvalidImplicit(i) : i \in TagIdents }

\* the fewest bytes the payload of a tag takes on the wire
RECURSIVE MinWire(_)
MinWire(t) ==
    CASE t.tag = "Byte" -> 1
      [] t.tag = "Short" -> 2
      [] t.tag \in { "Int", "Float" } -> 4
      [] t.tag \in { "Long", "Double" } -> 8
      [] t.tag = "ByteArray" -> 4 + Len(t.bytes)
      [] t.tag = "IntArray" -> 4 + (4 * Len(t.ints))
      [] t.tag = "LongArray" -> 4 + (8 * Len(t.longs))
      [] t.tag = "String" -> 2 + Len(t.string)
      [] t.tag = "List" ->
            LET Sum[i \in 0..Len(t.list)] ==
                    IF i = 0 THEN 0 ELSE Sum[i - 1] + MinWire(t.list[i])
            IN 5 + Sum[Len(t.list)]
      [] t.tag = "Compound" ->
            LET names == DOMAIN t.compound
                order == CHOOSE o \in IterOrders(names) : TRUE
                Sum[i \in 0..Len(order)] ==
                    IF i = 0 THEN 0
                    ELSE Sum[i - 1] + 3 + Len(order[i]) + MinWire(t.compound[order[i]])
            IN 1 + Sum[Len(order)]

\* a bare Tag was read from bytes that came from elsewhere
BareRead == origin = "from_bytes" /\ rres.op = "Tag::read"

\* the stream opens with the header of a List, an array or a String whose declared
\* length is more than the number of bytes left after the header
OverDeclared ==
    LET Over(n, left) == n[1] > 0 \/ n[2] > left
    IN /\ Len(buf) >= 1
       /\ \/ buf[1] = 9 /\ Len(buf) >= 6
             /\ Over(U32From(SubSeq(buf, 3, 6)), Len(buf) - 6)
          \/ buf[1] \in { 7, 11, 12 } /\ Len(buf) >= 5
             /\ Over(U32From(SubSeq(buf, 2, 5)), Len(buf) - 5)
          \/ buf[1] = 8 /\ Len(buf) >= 3
             /\ Over(<< 0, U16From(SubSeq(buf, 2, 3)) >>, Len(buf) - 3)

\* the elements of the List the stream opens with are of a fixed width
FixedWidthElements == buf[1] = 9 /\ buf[2] \in 1..6

\* a read ends with a value or with one of the decoder's errors, and a value took at
\* least the bytes its parts take: one or more for every value read
DecodeEnds ==
    pc = "done" =>
        /\ rres.res.ok \/ rres.res.err \in DecodeErrors
        /\ (rres.res.ok /\ rres.op = "Tag::read")
           => rres.res.pos - 1 >= 1 + MinWire(rres.res.val)
        /\ (rres.res.ok /\ rres.op = "Blob::read")
           => rres.res.pos - 1
                >= 3 + Len(rres.res.val.root) + MinWire(TagCompound(rres.res.val.elements))
        /\ rres.res.ok => rres.res.pos - 1 <= Len(buf)

\* C28 as stated: decoding a finite byte stream ends with a value or an error, every
\* value read taking at least one byte, so that a declared List, array or String
\* length larger than the input left ends in an IO error, not in a loop that does
\* not end and not in a shortened result.
C28_DecodeTerminates_AsStated ==
    /\ DecodeEnds
    /\ (BareRead /\ OverDeclared) => rres.res = Err(IOError)

\* C28: decoding a finite byte stream ends with a value or an error, every value read
\* taking at least one byte, so that a declared List, array or String length larger
\* than the input left ends in an error and never in a shortened result: in an IO
\* error for an array, a String and a List of fixed-width elements, in
\* UnexpectedEndTag for a List whose element type is TAG_End, and for a List of
\* other elements in an IO error or in the error of an element that is itself
\* malformed.
C28_DecodeTerminates ==
    /\ DecodeEnds
    /\ (BareRead /\ OverDeclared)
       => /\ ~rres.res.ok
          /\ buf[1] \in { 7, 8, 11, 12 } => rres.res.err = IOError
          /\ FixedWidthElements => rres.res.err = IOError
          /\ (buf[1] = 9 /\ buf[2] = 0) => rres.res.err = UnexpectedEndTag
          /\ rres.res.err \in { IOError, StringError, UnexpectedEndTag }
                               \cup { InvalidTag(b) : b \in 0..255 }

\* a List of Bytes that declares 3 elements and holds 2 was read: an IO error
C28_Witness ==
    /\ BareRead
    /\ buf = << 9, 1, 0, 0, 0, 3, 5, 6 >>
    /\ OverDeclared
    /\ rres.res = Err(IOError)

----------------------------------------------------------------------------
(* C29 *)

\* the byte sequences that encoding the document at hand can give: one for each order
\* in which the HashMaps of the tree may be walked
BlobEncodings == { r.buf : r \in Blob_write(<< >>, blob) }

\* every Compound of the tree holds at most one entry
RECURSIVE Narrow(_)
Narrow(t) ==
    CASE t.tag = "List" -> \A i \in 1..Len(t.list) : Narrow(t.list[i])
      [] t.tag = "Compound" ->
            /\ Cardinality(DOMAIN t.compound) <= 1
            /\ \A n \in DOMAIN t.compound : Narrow(t.compound[n])
      [] OTHER -> TRUE

\* C29: encoding is deterministic: encoding two equal documents (the same root name,
\* equal Compound trees) gives the same byte sequence, also when a Compound has two
\* or more entries.
C29_Deterministic ==
    origin = "Blob::write" => Cardinality(BlobEncodings) = 1

\* what the code does: documents whose Compounds hold at most one entry have one
\* encoding; the entries of a larger Compound are written in the HashMap's order,
\* which two equal maps need not share
C29_DeterministicWhenNarrow ==
    (origin = "Blob::write" /\ Narrow(Document)) => Cardinality(BlobEncodings) = 1

\* a document of two entries was written, and another order gives other bytes
C29_Witness ==
    /\ origin = "Blob::write"
    /\ wres.ok
    /\ Cardinality(DOMAIN blob.elements) = 2
    /\ buf \in BlobEncodings
    /\ \E other \in BlobEncodings : other # buf

----------------------------------------------------------------------------
(* C30 *)

\* the bare Tag was written after its ident byte, and the bytes were read as a Tag
FramedRoundTrip == pc = "done" /\ origin = "ident, Tag::write" /\ rres.op = "Tag::read"

\* the bare Tag was written alone, and the bytes were read as a Tag
BareRoundTrip == pc = "done" /\ origin = "Tag::write" /\ rres.op = "Tag::read"

\* the Tag read back equals the Tag written
TagReadBack == rres.res.ok /\ TagEq(rres.res.val, tag)

\* Tag::write gave the payload alone: no ident byte, no name before it
PayloadOnly ==
    /\ buf \in { r.buf : r \in write_tag(<< >>, tag) }
    /\ Len(buf) >= MinWire(tag)
    /\ tag.tag \in { "Byte", "Short", "Int", "Long", "Float", "Double",
                     "ByteArray", "IntArray", "LongArray" } => Len(buf) = MinWire(tag)

\* C30, as stated: Tag::write emits the payload only; Tag::read takes one ident byte,
\* then a payload of that type; so for every tree t with homogeneous lists, Tag::read
\* of the ident byte of t followed by the bytes of Tag::write(t) returns t, and the
\* bytes of Tag::write(t) alone do not read back as t.
C30_BareTag_AsStated ==
    /\ (origin = "Tag::write" /\ wres.ok) => PayloadOnly
    /\ (FramedRoundTrip /\ Homogeneous(tag)) => TagReadBack
    /\ (BareRoundTrip /\ wres.ok) => ~TagReadBack

\* C30, amended: as above, for the trees with homogeneous lists that hold no Float or
\* Double NaN and no string of more than 65535 bytes of UTF-8; the read then takes
\* every byte. A NaN comes back bit for bit and is not equal to itself.
C30_BareTag ==
    /\ (origin = "Tag::write" /\ wres.ok) => PayloadOnly
    /\ (origin = "ident, Tag::write" /\ Homogeneous(tag)) => wres.ok
    /\ (FramedRoundTrip /\ Homogeneous(tag) /\ NoNaN(tag) /\ StringsFit(tag))
       => (TagReadBack /\ rres.res.pos = Len(buf) + 1)
    /\ (FramedRoundTrip /\ Homogeneous(tag)) => (rres.res.ok /\ rres.res.val = tag)
    /\ (BareRoundTrip /\ wres.ok) => ~TagReadBack

\* a List of two elements came back from its ident byte and its payload
C30_Witness ==
    /\ FramedRoundTrip
    /\ tag.tag = "List" /\ Len(tag.list) = 2
    /\ Homogeneous(tag) /\ NoNaN(tag)
    /\ buf[1] = IdentAsU8("TAG_List")
    /\ TagReadBack

====
